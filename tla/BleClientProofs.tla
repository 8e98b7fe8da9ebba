--------------------------- MODULE BleClientProofs ---------------------------
(***************************************************************************)
(* Proofs about BleClient for any number of callers, commands, retries and *)
(* any set of faults: TypeOK, OneInFlight, RetriesNotInterleaved,          *)
(* AttemptsBounded, PlainReadsFit and ChannelSpec; and OwnReply where the  *)
(* device answers in time or not at all.                                   *)
(***************************************************************************)
EXTENDS BleClient, FiniteSetTheorems, SequenceTheorems, TLAPS

\* What TypeOK needs to be inductive: a caller inside execute has a command,
\* the device holds only requests that were written, and a future that can be
\* completed belongs to a command and is completed with at least one unit.
Grounded ==
  /\ \A c \in Callers : phase[c] # "idle" => cmd[c] \in Commands
  /\ \A i \in 1..Len(inbox) : inbox[i] \in 1..Len(log)
  /\ future.st = "pending" => current \in Commands
  /\ future.st = "result" => future.raw # <<>>

TypeInv == TypeOK /\ Grounded

\* The lock: its queue holds exactly the callers inside execute, each once, and
\* a caller that has written is its holder, with its command current.
LockInv ==
  /\ \A i, j \in 1..Len(queue) : queue[i] = queue[j] => i = j
  /\ \A c \in Callers : phase[c] # "idle" <=> \E i \in 1..Len(queue) : queue[i] = c
  /\ OneInFlight

IInv == TypeInv /\ LockInv

Kinds == {"data", "exception", "garbled"}

\* A reply to a request of the log is a non-empty run of units.
LEMMA ReplyType ==
  ASSUME TypeOK, NEW w \in 1..Len(log), NEW kind \in Kinds
  PROVE  /\ ReplyLen(w, kind) \in Nat \ {0}
         /\ Reply(w, kind) \in Seq(Unit)
         /\ Len(Reply(w, kind)) = ReplyLen(w, kind)
<1>0. log \in Seq(Request) /\ encrypted \in BOOLEAN
  BY DEF TypeOK
<1>1. log[w] \in Request
  BY <1>0
<1>2. ReplyLen(w, kind) \in Nat \ {0}
  <2>1. log[w].cmd \in Commands
    BY <1>1 DEF Request
  <2>2. Expect[encrypted][log[w].cmd] \in Nat \ {0}
    BY <1>0, <2>1, ClientAssumption DEF ClientAssumption
  <2> QED
    BY <2>2, ClientAssumption DEF ReplyLen, ClientAssumption
<1>3. \A i \in 1..ReplyLen(w, kind) : [req |-> w, part |-> i, kind |-> kind] \in Unit
  BY <1>2 DEF Unit, Kinds
<1> QED
  BY <1>2, <1>3 DEF Reply

\* Cutting a reply in two leaves runs of units.
LEMMA PiecesType ==
  ASSUME NEW reply \in Seq(Unit), NEW cut \in 1..Len(reply)
  PROVE  InPieces(reply, cut) \in Seq(Seq(Unit))
<1>1. SubSeq(reply, 1, cut) \in Seq(Unit) /\ SubSeq(reply, cut + 1, Len(reply)) \in Seq(Unit)
  OBVIOUS
<1> QED
  BY <1>1 DEF InPieces

\* A non-empty prefix of a sequence.
LEMMA PrefixType ==
  ASSUME NEW S, NEW s \in Seq(S), NEW n \in Nat \ {0}, n <= Len(s)
  PROVE  SubSeq(s, 1, n) \in Seq(S) /\ Len(SubSeq(s, 1, n)) = n /\ SubSeq(s, 1, n) # <<>>
<1>1. \A k \in 1..n : s[k] \in S
  BY ElementOfSeq
<1>2. SubSeq(s, 1, n) \in Seq(S) /\ Len(SubSeq(s, 1, n)) = n
  BY <1>1, SubSeqProperties
<1> QED
  BY <1>2, EmptySeq

\* Removing one place of a sequence.
LEMMA RemovalType ==
  ASSUME NEW S, NEW s \in Seq(S), NEW i \in 1..Len(s)
  PROVE  /\ RemoveAt(s, i) \in Seq(S)
         /\ Len(RemoveAt(s, i)) = Len(s) - 1
         /\ \A j \in 1..(Len(s) - 1) :
              (RemoveAt(s, i))[j] = IF j < i THEN s[j] ELSE s[j + 1]
<1> DEFINE a == SubSeq(s, 1, i - 1)
           b == SubSeq(s, i + 1, Len(s))
<1>1. a \in Seq(S) /\ Len(a) = i - 1 /\ \A j \in 1..(i - 1) : a[j] = s[j]
  OBVIOUS
<1>2. b \in Seq(S) /\ Len(b) = Len(s) - i /\ \A j \in 1..(Len(s) - i) : b[j] = s[i + j]
  OBVIOUS
<1> HIDE DEF a, b
<1>3. /\ a \o b \in Seq(S) /\ Len(a \o b) = Len(a) + Len(b)
      /\ \A j \in 1..(Len(a) + Len(b)) : (a \o b)[j] = IF j <= Len(a) THEN a[j] ELSE b[j - Len(a)]
  BY <1>1, <1>2, ConcatProperties
<1>4. ASSUME NEW j \in 1..(Len(s) - 1)
      PROVE (a \o b)[j] = IF j < i THEN s[j] ELSE s[j + 1]
  BY <1>1, <1>2, <1>3
<1>5. /\ a \o b \in Seq(S) /\ Len(a \o b) = Len(s) - 1
      /\ \A j \in 1..(Len(s) - 1) : (a \o b)[j] = IF j < i THEN s[j] ELSE s[j + 1]
  BY <1>1, <1>2, <1>3, <1>4
<1> QED
  BY ONLY <1>5 DEF a, b, RemoveAt

-----------------------------------------------------------------------------
(* TypeInv is inductive, one lemma per group of actions.                   *)

LEMMA InitType == Init => TypeInv
<1> SUFFICES ASSUME Init PROVE TypeInv
  OBVIOUS
<1>1. queue \in Seq(Callers) /\ buffer \in Seq(Unit) /\ air \in Seq(Seq(Unit))
      /\ inbox \in Seq(Nat) /\ log \in Seq(Request)
  BY EmptySeq DEF Init
<1>2. future \in Future /\ link \in Link /\ outcome \in [Callers -> Outcome]
  BY EmptySeq DEF Init, Future, Link, Outcome, Failed
<1>3. retries \in [Callers -> 0..(MaxRetries - 1)]
  BY ClientAssumption DEF Init, ClientAssumption
<1> QED
  BY <1>1, <1>2, <1>3 DEF Init, TypeInv, TypeOK, Grounded

\* An end of a call, whatever it reports.
LEMMA EndType ==
  ASSUME TypeInv, NEW c \in Callers, queue # <<>>, NEW result \in Outcome, EndHere(c, result)
  PROVE  TypeInv'
<1>1. queue' \in Seq(Callers)
  BY HeadTailProperties DEF EndHere, End, TypeInv, TypeOK
<1>2. phase' \in [Callers -> {"idle", "queued", "sent"}] /\ outcome' \in [Callers -> Outcome]
  BY DEF EndHere, End, TypeInv, TypeOK
<1>3. \A d \in Callers : phase'[d] # "idle" => cmd'[d] \in Commands
  BY DEF EndHere, End, TypeInv, TypeOK, Grounded
<1> QED
  BY <1>1, <1>2, <1>3 DEF EndHere, notifyVars, deviceVars, TypeInv, TypeOK, Grounded

\* An attempt to write the caller's command.
LEMMA AttemptType ==
  ASSUME TypeInv, NEW c \in Callers, queue # <<>>, phase[c] # "idle",
         NEW n \in 0..(MaxRetries - 1), Attempt(c, n)
  PROVE  TypeInv'
<1>1. cmd[c] \in Commands /\ call[c] \in Nat
  BY DEF TypeInv, TypeOK, Grounded
<1>2. future' \in Future /\ future'.st = "pending" /\ buffer' \in Seq(Unit)
  BY EmptySeq DEF Attempt, Future
<1>3. retries' \in [Callers -> 0..(MaxRetries - 1)] /\ current' \in Commands
  BY <1>1 DEF Attempt, TypeInv, TypeOK
<1>4. UNCHANGED <<cmd, call, calls, link, encrypted, air, mishaps>>
  BY DEF Attempt
<1>5. CASE link.up
  <2>1. /\ log' = Append(log, [call |-> call[c], cmd |-> cmd[c]])
        /\ inbox' = Append(inbox, Len(log) + 1) \/ inbox' = inbox
        /\ phase' = [phase EXCEPT ![c] = "sent"]
        /\ UNCHANGED <<queue, outcome>>
    BY <1>5 DEF Attempt
  <2>2. [call |-> call[c], cmd |-> cmd[c]] \in Request
    BY <1>1 DEF Request
  <2>3. log' \in Seq(Request) /\ Len(log') = Len(log) + 1 /\ Len(log) \in Nat
    BY <2>1, <2>2, AppendProperties DEF TypeInv, TypeOK
  <2>4. inbox' \in Seq(Nat) /\ \A i \in 1..Len(inbox') : inbox'[i] \in 1..Len(log')
    <3>1. inbox \in Seq(Nat) /\ \A i \in 1..Len(inbox) : inbox[i] \in 1..Len(log)
      BY DEF TypeInv, TypeOK, Grounded
    <3>2. CASE inbox' = inbox
      BY <2>3, <3>1, <3>2
    <3>3. CASE inbox' = Append(inbox, Len(log) + 1)
      BY <2>3, <3>1, <3>3, AppendProperties
    <3> QED
      BY <2>1, <3>2, <3>3
  <2>5. phase' \in [Callers -> {"idle", "queued", "sent"}]
        /\ \A d \in Callers : phase'[d] # "idle" => cmd'[d] \in Commands
    BY <1>1, <1>4, <2>1 DEF TypeInv, TypeOK, Grounded
  <2> QED
    BY <1>2, <1>3, <1>4, <2>1, <2>3, <2>4, <2>5 DEF TypeInv, TypeOK, Grounded
<1>6. CASE ~link.up
  <2>1. End(c, Failed("link")) /\ UNCHANGED <<log, inbox>>
    BY <1>6 DEF Attempt
  <2>2. queue' \in Seq(Callers)
    BY <2>1, HeadTailProperties DEF End, TypeInv, TypeOK
  <2>3. phase' \in [Callers -> {"idle", "queued", "sent"}] /\ outcome' \in [Callers -> Outcome]
    BY <2>1 DEF End, Failed, Outcome, TypeInv, TypeOK
  <2>4. \A d \in Callers : phase'[d] # "idle" => cmd'[d] \in Commands
    BY <1>4, <2>1 DEF End, TypeInv, TypeOK, Grounded
  <2> QED
    BY <1>2, <1>3, <1>4, <2>1, <2>2, <2>3, <2>4 DEF TypeInv, TypeOK, Grounded
<1> QED
  BY <1>5, <1>6

LEMMA RetryType ==
  ASSUME TypeInv, NEW c \in Callers, queue # <<>>, phase[c] # "idle", Retry(c)
  PROVE  TypeInv'
<1>1. retries[c] \in Nat /\ MaxRetries \in Nat
  BY ClientAssumption DEF ClientAssumption, TypeInv, TypeOK
<1>2. CASE retries[c] + 1 < MaxRetries /\ Attempt(c, retries[c] + 1)
  BY <1>1, <1>2, AttemptType
<1>3. CASE EndHere(c, Failed("badconn"))
  <2>1. Failed("badconn") \in Outcome
    BY DEF Failed, Outcome
  <2> QED
    BY <1>3, <2>1, EndType
<1> QED
  BY <1>2, <1>3 DEF Retry, RetryUpTo

LEMMA ResumeType ==
  ASSUME TypeInv, NEW c \in Callers, queue # <<>>, Resume(c)
  PROVE  TypeInv'
<1>1. phase[c] # "idle"
  BY DEF Resume
<1>2. \A kind \in {"badconn", "cancelled", "crash", "modbus"} : Failed(kind) \in Outcome
  BY DEF Failed, Outcome
<1>3. ASSUME future.st = "result"
      PROVE  Accepted(future.raw[1]) \in Outcome
  <2>1. future.raw \in Seq(Unit) /\ future.raw # <<>>
    BY <1>3 DEF TypeInv, TypeOK, Future, Grounded
  <2>2. future.raw[1] \in Unit
    BY <2>1, EmptySeq, ElementOfSeq
  <2> QED
    BY <1>2, <2>2 DEF Accepted, Unit, Outcome
<1>4. CASE Retry(c)
  BY <1>1, <1>4, RetryType
<1>5. CASE \E kind \in {"badconn", "cancelled", "crash", "modbus"} : EndHere(c, Failed(kind))
  BY <1>2, <1>5, EndType
<1>6. CASE future.st = "result" /\ EndHere(c, Accepted(future.raw[1]))
  BY <1>3, <1>6, EndType
<1> QED
  BY <1>4, <1>5, <1>6 DEF Resume

LEMMA ExecuteType ==
  ASSUME TypeInv, NEW c \in Callers, NEW r \in Commands, Execute(c, r)
  PROVE  TypeInv'
<1>1. queue' \in Seq(Callers)
  BY AppendProperties DEF Execute, TypeInv, TypeOK
<1>2. outcome' \in [Callers -> Outcome]
  BY DEF Execute, Failed, Outcome, TypeInv, TypeOK
<1>3. calls' \in Nat /\ call' \in [Callers -> Nat]
  BY DEF Execute, TypeInv, TypeOK
<1>4. /\ phase' \in [Callers -> {"idle", "queued", "sent"}]
      /\ cmd' \in [Callers -> Commands \cup {"none"}]
      /\ \A d \in Callers : phase'[d] # "idle" => cmd'[d] \in Commands
  BY DEF Execute, TypeInv, TypeOK, Grounded
<1> QED
  BY <1>1, <1>2, <1>3, <1>4 DEF Execute, notifyVars, deviceVars, TypeInv, TypeOK, Grounded

LEMMA CancelType ==
  ASSUME TypeInv, NEW i \in 1..Len(queue), Cancel(i)
  PROVE  TypeInv'
<1>1. queue \in Seq(Callers) /\ queue[i] \in Callers
  BY ElementOfSeq DEF TypeInv, TypeOK
<1>2. queue' \in Seq(Callers)
  BY <1>1, RemovalType DEF Cancel
<1>3. future' \in Future /\ future'.st \in {future.st, "cancelled"} /\ future'.raw = future.raw
  BY DEF Cancel, TypeInv, TypeOK, Future
<1>4. /\ phase' \in [Callers -> {"idle", "queued", "sent"}]
      /\ outcome' \in [Callers -> Outcome]
      /\ mishaps' \in Nat
  <2>1. Failed("cancelled") \in Outcome
    BY DEF Failed, Outcome
  <2>2. outcome \in [Callers -> Outcome] /\ phase \in [Callers -> {"idle", "queued", "sent"}] /\ mishaps \in Nat
    BY DEF TypeInv, TypeOK
  <2>3. /\ phase' = [phase EXCEPT ![queue[i]] = "idle"]
        /\ outcome' = [outcome EXCEPT ![queue[i]] = Failed("cancelled")]
        /\ mishaps' = mishaps + 1
    BY DEF Cancel, Mishap
  <2> QED
    BY <1>1, <2>1, <2>2, <2>3
<1>5. \A d \in Callers : phase'[d] # "idle" => cmd'[d] \in Commands
  BY <1>1 DEF Cancel, TypeInv, TypeOK, Grounded
<1> QED
  BY <1>2, <1>3, <1>4, <1>5 DEF Cancel, deviceVars, TypeInv, TypeOK, Grounded

LEMMA DeliverType ==
  ASSUME TypeInv, Deliver
  PROVE  TypeInv'
<1>1. Head(air) \in Seq(Unit) /\ air' \in Seq(Seq(Unit))
  BY HeadTailProperties DEF Deliver, TypeInv, TypeOK
<1>2. Gathered \in Seq(Unit)
  BY <1>1, ConcatProperties DEF Gathered, TypeInv, TypeOK
<1>3. buffer' \in Seq(Unit)
  BY <1>2 DEF Deliver, TypeInv, TypeOK
<1>4. Wanted => Expected \in Nat \ {0}
  BY ClientAssumption DEF Expected, Wanted, ClientAssumption, TypeInv, Grounded
<1>5. /\ future' \in Future
      /\ future'.st = "pending" => future.st = "pending"
      /\ future'.st = "result" => future'.raw # <<>>
  <2>1. CASE UNCHANGED future
    BY <2>1 DEF TypeInv, TypeOK, Grounded
  <2>2. CASE future' = [future EXCEPT !.st = "at"] \/ future' = [future EXCEPT !.st = "parse"]
    BY <2>2 DEF TypeInv, TypeOK, Future
  <2>3. CASE /\ Wanted /\ Len(Gathered) >= Expected
             /\ future' = [st |-> "result", raw |-> SubSeq(Gathered, 1, Expected)]
    <3>1. /\ SubSeq(Gathered, 1, Expected) \in Seq(Unit)
          /\ SubSeq(Gathered, 1, Expected) # <<>>
      BY <1>2, <1>4, <2>3, PrefixType
    <3> QED
      BY <2>3, <3>1 DEF Future
  <2>4. CASE ~Wanted \/ Len(Gathered) < Expected
    BY <1>4, <2>1, <2>2, <2>4 DEF Deliver
  <2>5. Wanted => Len(Gathered) >= Expected \/ Len(Gathered) < Expected
    BY <1>2, <1>4
  <2> QED
    BY <2>1, <2>2, <2>3, <2>4, <2>5 DEF Deliver
<1> QED
  BY <1>1, <1>3, <1>5 DEF Deliver, callVars, TypeInv, TypeOK, Grounded

LEMMA OwnerType ==
  ASSUME TypeInv, OwnerSteps
  PROVE  TypeInv'
<1>1. CASE ConnectStart \/ ConnectOpened \/ ConnectSubscribed \/ HandshakeDone \/ ConnectFails
  <2>1. UNCHANGED <<callVars, notifyVars, encrypted, deviceVars>>
    BY <1>1 DEF ConnectStart, ConnectOpened, ConnectSubscribed, HandshakeDone, ConnectFails, ConnectStep
  <2>2. link' \in Link
    BY <1>1 DEF ConnectStart, ConnectOpened, ConnectSubscribed, HandshakeDone, ConnectFails,
                ConnectStep, Link, TypeInv, TypeOK
  <2>3. mishaps' \in Nat
    BY <1>1 DEF ConnectStart, ConnectOpened, ConnectSubscribed, HandshakeDone, ConnectFails,
                ConnectStep, Mishap, TypeInv, TypeOK
  <2> QED
    BY <2>1, <2>2, <2>3 DEF callVars, notifyVars, deviceVars, TypeInv, TypeOK, Grounded
<1>2. CASE Disconnect
  <2>1. link' \in Link
    BY <1>2 DEF Disconnect, Link, TypeInv, TypeOK
  <2>3. air' \in Seq(Seq(Unit)) /\ mishaps' \in Nat
    BY <1>2, EmptySeq DEF Disconnect, Mishap, TypeInv, TypeOK
  <2>2. future' \in Future /\ future'.st \in {future.st, "cancelled"} /\ future'.raw = future.raw
    BY <1>2 DEF Disconnect, Future, TypeInv, TypeOK
  <2> QED
    BY <1>2, <2>1, <2>2, <2>3 DEF Disconnect, callVars, TypeInv, TypeOK, Grounded
<1>3. CASE Disconnected
  <2>1. link' \in Link /\ air' \in Seq(Seq(Unit)) /\ inbox' \in Seq(Nat) /\ Len(inbox') = 0
    BY <1>3, EmptySeq DEF Disconnected, LinkDown, Link, TypeInv, TypeOK
  <2> QED
    BY <1>3, <2>1 DEF Disconnected, callVars, notifyVars, TypeInv, TypeOK, Grounded
<1> QED
  BY <1>1, <1>2, <1>3 DEF OwnerSteps

LEMMA EnvironmentType ==
  ASSUME TypeInv, Environment
  PROVE  TypeInv'
<1>1. ASSUME inbox # <<>>
      PROVE  /\ Tail(inbox) \in Seq(Nat) /\ Head(inbox) \in 1..Len(log)
             /\ \A i \in 1..Len(Tail(inbox)) : Tail(inbox)[i] \in 1..Len(log)
  <2>1. inbox \in Seq(Nat) /\ Len(inbox) \in Nat \ {0} /\ \A i \in 1..Len(inbox) : inbox[i] \in 1..Len(log)
    BY <1>1, EmptySeq DEF TypeInv, TypeOK, Grounded
  <2>2. Head(inbox) = inbox[1]
    BY <1>1, <2>1
  <2> QED
    BY <1>1, <2>1, <2>2, HeadTailProperties
<1>2. CASE Answer
  <2>1. PICK kind \in {"data"} \cup (Faults \cap {"exception", "garbled"}) :
          \E cut \in 1..ReplyLen(Head(inbox), kind) :
            /\ air' = IF link.sub THEN air \o InPieces(Reply(Head(inbox), kind), cut) ELSE air
            /\ IF kind = "data" THEN UNCHANGED mishaps ELSE Mishap
    BY <1>2 DEF Answer
  <2>2. PICK cut \in 1..ReplyLen(Head(inbox), kind) :
            /\ air' = IF link.sub THEN air \o InPieces(Reply(Head(inbox), kind), cut) ELSE air
            /\ IF kind = "data" THEN UNCHANGED mishaps ELSE Mishap
    BY <2>1
  <2>3. InPieces(Reply(Head(inbox), kind), cut) \in Seq(Seq(Unit))
    <3>1. TypeOK /\ Head(inbox) \in 1..Len(log) /\ kind \in Kinds
      BY <1>1, <1>2 DEF Answer, Kinds, TypeInv
    <3>2. Reply(Head(inbox), kind) \in Seq(Unit) /\ cut \in 1..Len(Reply(Head(inbox), kind))
      BY <3>1, ReplyType
    <3> QED
      BY <3>2, PiecesType
  <2>4. air' \in Seq(Seq(Unit)) /\ mishaps' \in Nat
    BY <2>2, <2>3, ConcatProperties DEF Mishap, TypeInv, TypeOK
  <2> QED
    BY <1>1, <1>2, <2>4 DEF Answer, callVars, notifyVars, TypeInv, TypeOK, Grounded
<1>3. CASE Ignore
  <2>1. mishaps' \in Nat
    BY <1>3 DEF Ignore, Mishap, TypeInv, TypeOK
  <2> QED
    BY <1>1, <1>3, <2>1 DEF Ignore, callVars, notifyVars, TypeInv, TypeOK, Grounded
<1>4. CASE AtNoise
  <2>1. AtNotice \in Seq(Unit)
    BY DEF AtNotice, Unit
  <2>2. air' \in Seq(Seq(Unit)) /\ mishaps' \in Nat
    BY <1>4, <2>1, AppendProperties DEF AtNoise, Mishap, TypeInv, TypeOK
  <2> QED
    BY <1>4, <2>2 DEF AtNoise, callVars, notifyVars, TypeInv, TypeOK, Grounded
<1>5. CASE LinkDrops
  <2>1. link' \in Link /\ air' \in Seq(Seq(Unit)) /\ inbox' \in Seq(Nat) /\ Len(inbox') = 0
    BY <1>5, EmptySeq DEF LinkDrops, LinkDown, Link, TypeInv, TypeOK
  <2>2. mishaps' \in Nat
    BY <1>5 DEF LinkDrops, Mishap, TypeInv, TypeOK
  <2> QED
    BY <1>5, <2>1, <2>2 DEF LinkDrops, callVars, notifyVars, TypeInv, TypeOK, Grounded
<1> QED
  BY <1>2, <1>3, <1>4, <1>5 DEF Environment

-----------------------------------------------------------------------------
(* LockInv is inductive.  Most actions leave the lock alone.               *)

LEMMA LockUntouched ==
  ASSUME LockInv, UNCHANGED <<queue, phase, cmd, current>>
  PROVE  LockInv'
BY DEF LockInv, OneInFlight, Holds

\* The holder of the lock is inside execute, and the queue is not empty.
LEMMA HolderAt ==
  ASSUME TypeInv, LockInv, NEW c \in Callers, Holds(c)
  PROVE  queue # <<>> /\ Len(queue) \in Nat \ {0} /\ queue[1] = c /\ phase[c] # "idle"
<1>1. queue \in Seq(Callers) /\ queue # <<>>
  BY DEF Holds, TypeInv, TypeOK
<1>2. Len(queue) \in Nat \ {0} /\ queue[1] = c
  BY <1>1, EmptySeq DEF Holds
<1> QED
  BY <1>1, <1>2 DEF LockInv

\* The holder leaves: the others move up, and nobody else was in flight.
LEMMA LeaveLock ==
  ASSUME TypeInv, LockInv, NEW c \in Callers, Holds(c),
         queue' = Tail(queue), phase' = [phase EXCEPT ![c] = "idle"], cmd' = cmd
  PROVE  LockInv'
<1>1. queue \in Seq(Callers) /\ queue # <<>> /\ Len(queue) \in Nat \ {0} /\ queue[1] = c
  BY HolderAt DEF TypeInv, TypeOK
<1>2. /\ Len(queue') = Len(queue) - 1
      /\ \A i \in 1..Len(queue') : queue'[i] = queue[i + 1]
  BY <1>1, HeadTailProperties
<1>3. \A i, j \in 1..Len(queue') : queue'[i] = queue'[j] => i = j
  BY <1>1, <1>2 DEF LockInv
<1>4. ASSUME NEW d \in Callers
      PROVE  phase'[d] # "idle" <=> \E i \in 1..Len(queue') : queue'[i] = d
  <2>1. CASE d = c
    BY <1>1, <1>2, <2>1 DEF LockInv, TypeInv, TypeOK
  <2>2. CASE d # c
    <3>1. phase'[d] # "idle" <=> \E i \in 1..Len(queue) : queue[i] = d
      BY <2>2 DEF LockInv, TypeInv, TypeOK
    <3>2. ASSUME NEW i \in 1..Len(queue), queue[i] = d
          PROVE  \E k \in 1..Len(queue') : queue'[k] = d
      <4>1. i - 1 \in 1..Len(queue')
        BY <1>1, <1>2, <2>2, <3>2
      <4>2. queue'[i - 1] = queue[(i - 1) + 1] /\ (i - 1) + 1 = i
        BY <1>1, <1>2, <4>1
      <4> QED
        BY <3>2, <4>1, <4>2
    <3>3. (\E k \in 1..Len(queue') : queue'[k] = d) => \E i \in 1..Len(queue) : queue[i] = d
      BY <1>1, <1>2
    <3> QED
      BY <3>1, <3>2, <3>3
  <2> QED
    BY <2>1, <2>2
<1>5. OneInFlight'
  BY <1>1 DEF LockInv, OneInFlight, Holds, TypeInv, TypeOK
<1> QED
  BY <1>3, <1>4, <1>5 DEF LockInv

LEMMA AttemptLock ==
  ASSUME TypeInv, LockInv, NEW c \in Callers, Holds(c), NEW n, Attempt(c, n)
  PROVE  LockInv'
<1>1. phase[c] # "idle"
  BY HolderAt
<1>2. CASE link.up
  <2>1. queue' = queue /\ cmd' = cmd /\ phase' = [phase EXCEPT ![c] = "sent"] /\ current' = cmd[c]
    BY <1>2 DEF Attempt
  <2>2. OneInFlight'
    BY <2>1 DEF LockInv, OneInFlight, Holds, TypeInv, TypeOK
  <2> QED
    BY <1>1, <2>1, <2>2 DEF LockInv, TypeInv, TypeOK
<1>3. CASE ~link.up
  <2>1. queue' = Tail(queue) /\ phase' = [phase EXCEPT ![c] = "idle"] /\ cmd' = cmd
    BY <1>3 DEF Attempt, End
  <2> QED
    BY <2>1, LeaveLock
<1> QED
  BY <1>2, <1>3

LEMMA EndHereLock ==
  ASSUME TypeInv, LockInv, NEW c \in Callers, Holds(c), NEW result, EndHere(c, result)
  PROVE  LockInv'
BY LeaveLock DEF EndHere, End

LEMMA RetryLock ==
  ASSUME TypeInv, LockInv, NEW c \in Callers, Holds(c), Retry(c)
  PROVE  LockInv'
BY AttemptLock, EndHereLock DEF Retry, RetryUpTo

LEMMA ResumeLock ==
  ASSUME TypeInv, LockInv, NEW c \in Callers, Resume(c)
  PROVE  LockInv'
<1>1. Holds(c)
  BY DEF Resume, LockInv, OneInFlight
<1> QED
  BY <1>1, RetryLock, EndHereLock DEF Resume

LEMMA ExecuteLock ==
  ASSUME TypeInv, LockInv, NEW c \in Callers, NEW r \in Commands, Execute(c, r)
  PROVE  LockInv'
<1>0. queue \in Seq(Callers) /\ Len(queue) \in Nat /\ queue' = Append(queue, c)
  BY DEF Execute, TypeInv, TypeOK
<1>1. /\ queue' \in Seq(Callers) /\ queue' # <<>> /\ Len(queue') = Len(queue) + 1
      /\ \A i \in 1..Len(queue) : queue'[i] = queue[i]
      /\ queue'[Len(queue) + 1] = c
  BY <1>0, AppendProperties
<1>2. \A i \in 1..Len(queue) : queue[i] # c
  BY DEF Execute, LockInv
<1>3. \A i, j \in 1..Len(queue') : queue'[i] = queue'[j] => i = j
  BY <1>0, <1>1, <1>2 DEF LockInv
<1>4. ASSUME NEW d \in Callers
      PROVE  phase'[d] # "idle" <=> \E i \in 1..Len(queue') : queue'[i] = d
  <2>1. CASE d = c
    BY <1>0, <1>1, <2>1 DEF Execute, TypeInv, TypeOK
  <2>2. CASE d # c
    <3>1. phase'[d] # "idle" <=> \E i \in 1..Len(queue) : queue[i] = d
      BY <2>2 DEF Execute, LockInv, TypeInv, TypeOK
    <3>2. \A i \in 1..Len(queue') : i \in 1..Len(queue) \/ i = Len(queue) + 1
      BY <1>0, <1>1
    <3>3. 1..Len(queue) \subseteq 1..Len(queue')
      BY <1>0, <1>1
    <3> QED
      BY <1>1, <2>2, <3>1, <3>2, <3>3
  <2> QED
    BY <2>1, <2>2
<1>5. ASSUME NEW d \in Callers, phase'[d] = "sent"
      PROVE  Holds(d)' /\ current' = cmd'[d]
  <2>1. d # c /\ phase[d] = "sent"
    BY <1>5 DEF Execute, TypeInv, TypeOK
  <2>2. Holds(d) /\ current = cmd[d]
    BY <2>1 DEF LockInv, OneInFlight
  <2>3. Head(queue') = d
    BY <1>0, <2>2, HeadTailAppend DEF Holds
  <2> QED
    BY <1>1, <2>1, <2>2, <2>3 DEF Execute, Holds, notifyVars, TypeInv, TypeOK
<1> QED
  BY <1>3, <1>4, <1>5 DEF LockInv, OneInFlight

LEMMA CancelLock ==
  ASSUME TypeInv, LockInv, NEW i \in 1..Len(queue), Cancel(i)
  PROVE  LockInv'
<1> DEFINE c == queue[i]
<1>1. queue \in Seq(Callers) /\ Len(queue) \in Nat /\ c \in Callers
  BY ElementOfSeq DEF TypeInv, TypeOK
<1>2. /\ queue' \in Seq(Callers) /\ Len(queue') = Len(queue) - 1
      /\ \A j \in 1..Len(queue') : queue'[j] = IF j < i THEN queue[j] ELSE queue[j + 1]
  BY <1>1, RemovalType DEF Cancel
<1>3. /\ phase' = [phase EXCEPT ![c] = "idle"]
      /\ cmd' = cmd /\ current' = current
  BY DEF Cancel
<1>4. \A j, k \in 1..Len(queue) : queue[j] = queue[k] => j = k
  BY DEF LockInv
<1> HIDE DEF c
<1>5. \A j, k \in 1..Len(queue') : queue'[j] = queue'[k] => j = k
  BY <1>1, <1>2, <1>4
<1>6. ASSUME NEW d \in Callers
      PROVE  phase'[d] # "idle" <=> \E j \in 1..Len(queue') : queue'[j] = d
  <2>1. phase[d] # "idle" <=> \E j \in 1..Len(queue) : queue[j] = d
    BY DEF LockInv
  <2>2. CASE d = c
    <3>1. \A j \in 1..Len(queue') : queue'[j] # queue[i]
      BY <1>1, <1>2, <1>4
    <3> QED
      BY <1>3, <2>2, <3>1 DEF c, TypeInv, TypeOK
  <2>3. CASE d # c
    <3>1. phase'[d] = phase[d]
      BY <1>3, <2>3 DEF TypeInv, TypeOK
    <3>2. ASSUME NEW j \in 1..Len(queue), queue[j] = d
          PROVE  \E k \in 1..Len(queue') : queue'[k] = d
      <4>1. CASE j < i
        BY <1>1, <1>2, <3>2, <4>1
      <4>2. CASE j > i
        <5>1. j - 1 \in 1..Len(queue') /\ queue'[j - 1] = queue[(j - 1) + 1] /\ (j - 1) + 1 = j
          BY <1>1, <1>2, <4>2
        <5> QED
          BY <3>2, <5>1
      <4>3. j # i
        BY <2>3, <3>2 DEF c
      <4> QED
        BY <4>1, <4>2, <4>3
    <3>3. ASSUME NEW k \in 1..Len(queue'), queue'[k] = d
          PROVE  \E j \in 1..Len(queue) : queue[j] = d
      BY <1>1, <1>2, <3>3
    <3> QED
      BY <2>1, <3>1, <3>2, <3>3
  <2> QED
    BY <2>2, <2>3
<1>7. ASSUME NEW d \in Callers, phase'[d] = "sent"
      PROVE  Holds(d)' /\ current' = cmd'[d]
  <2>1. d # c /\ phase[d] = "sent"
    BY <1>1, <1>3, <1>7 DEF TypeInv, TypeOK
  <2>2. Holds(d) /\ current = cmd[d]
    BY <2>1 DEF LockInv, OneInFlight
  <2>3. queue[1] = d
    BY <2>2, HolderAt
  <2>4. i # 1 /\ 1 \in 1..Len(queue')
    BY <1>1, <1>2, <2>1, <2>3 DEF c
  <2>5. queue'[1] = d /\ queue' # <<>>
    BY <1>1, <1>2, <2>3, <2>4, EmptySeq
  <2> QED
    BY <1>2, <1>3, <2>2, <2>5 DEF Holds
<1> QED
  BY <1>5, <1>6, <1>7 DEF LockInv, OneInFlight

-----------------------------------------------------------------------------

LEMMA InitInv == Init => IInv
<1> SUFFICES ASSUME Init PROVE IInv
  OBVIOUS
<1>1. queue = <<>> /\ Len(queue) = 0 /\ phase = [c \in Callers |-> "idle"]
  BY DEF Init
<1>2. LockInv
  BY <1>1 DEF LockInv, OneInFlight
<1> QED
  BY <1>2, InitType DEF IInv

\* Every step keeps IInv.
LEMMA NextInv == IInv /\ [Next]_vars => IInv'
<1> SUFFICES ASSUME TypeInv, LockInv, [Next]_vars
             PROVE  TypeInv' /\ LockInv'
  BY DEF IInv
<1>1. CASE \E c \in Callers, r \in Commands : Execute(c, r)
  BY <1>1, ExecuteType, ExecuteLock
<1>2. ASSUME NEW c \in Callers, Start(c) \/ Timeout(c) \/ Resume(c)
      PROVE  TypeInv' /\ LockInv'
  <2>1. Holds(c)
    BY <1>2 DEF Start, Timeout, Resume, LockInv, OneInFlight
  <2>2. queue # <<>> /\ phase[c] # "idle"
    BY <2>1, HolderAt
  <2>3. CASE Start(c)
    <3>1. Attempt(c, 0) /\ 0 \in 0..(MaxRetries - 1)
      BY <2>3, ClientAssumption DEF Start, ClientAssumption
    <3> QED
      BY <2>1, <2>2, <3>1, AttemptType, AttemptLock
  <2>4. CASE Timeout(c)
    BY <2>1, <2>2, <2>4, RetryType, RetryLock DEF Timeout
  <2>5. CASE Resume(c)
    BY <2>2, <2>5, ResumeType, ResumeLock
  <2> QED
    BY <1>2, <2>3, <2>4, <2>5
<1>3. CASE \E i \in 1..Len(queue) : Cancel(i)
  BY <1>3, CancelType, CancelLock
<1>4. CASE Deliver
  BY <1>4, DeliverType, LockUntouched DEF Deliver, callVars
<1>5. CASE OwnerSteps
  <2>1. UNCHANGED <<queue, phase, cmd, current>>
    BY <1>5 DEF OwnerSteps, ConnectStart, ConnectOpened, ConnectSubscribed, HandshakeDone, ConnectFails,
                ConnectStep, Disconnect, Disconnected, callVars, notifyVars
  <2> QED
    BY <1>5, <2>1, OwnerType, LockUntouched
<1>6. CASE Environment
  <2>1. UNCHANGED <<queue, phase, cmd, current>>
    BY <1>6 DEF Environment, Answer, Ignore, AtNoise, LinkDrops, callVars, notifyVars
  <2> QED
    BY <1>6, <2>1, EnvironmentType, LockUntouched
<1>7. CASE UNCHANGED vars
  BY <1>7, LockUntouched DEF vars, callVars, notifyVars, deviceVars, TypeInv, TypeOK, Grounded
<1> QED
  BY <1>1, <1>2, <1>3, <1>4, <1>5, <1>6, <1>7 DEF Next

\* Every variable keeps its type, whatever the device, the link and the tasks do.
THEOREM ClientTypeOK == Spec => []TypeOK
<1>1. IInv => TypeOK
  BY DEF IInv, TypeInv
<1> QED
  BY InitInv, NextInv, <1>1, PTL DEF Spec

\* One command is in flight: the caller that waits for an answer holds the lock
\* and the notification handler measures against its command (client.py:63-73).
THEOREM ClientOneInFlight == Spec => []OneInFlight
<1>1. IInv => OneInFlight
  BY DEF IInv, LockInv
<1> QED
  BY InitInv, NextInv, <1>1, PTL DEF Spec

-----------------------------------------------------------------------------
(* The order of the requests written.                                      *)

Suffix(c) ==
  \A i \in 1..Len(log) : log[i].call = call[c] =>
    \A k \in i..Len(log) : log[k].call = call[c]

\* A call in the queue has a number of its own and has written nothing; what the
\* call in flight has written is the end of the log.
LogInv ==
  /\ \A i \in 1..Len(log) : log[i].call \in 1..calls
  /\ \A c \in Callers : phase[c] # "idle" => call[c] \in 1..calls
  /\ \A c, d \in Callers :
       phase[c] # "idle" /\ phase[d] # "idle" /\ c # d => call[c] # call[d]
  /\ \A c \in Callers : phase[c] = "queued" =>
       \A i \in 1..Len(log) : log[i].call # call[c]
  /\ \A c \in Callers : phase[c] = "sent" => Suffix(c)
  /\ RetriesNotInterleaved

\* A step that writes nothing and starts no call keeps LogInv.
LEMMA LogUntouched ==
  ASSUME LogInv, UNCHANGED <<log, call, calls>>,
         \A c \in Callers : phase'[c] \in {phase[c], "idle"}
  PROVE  LogInv'
BY SMTT(30) DEF LogInv, Suffix, RetriesNotInterleaved

LEMMA EndLog ==
  ASSUME TypeInv, LogInv, NEW c \in Callers, NEW result, EndHere(c, result)
  PROVE  LogInv'
<1>1. UNCHANGED <<log, call, calls>> /\ \A d \in Callers : phase'[d] \in {phase[d], "idle"}
  BY DEF EndHere, End, deviceVars, TypeInv, TypeOK
<1> QED
  BY <1>1, LogUntouched

LEMMA AttemptLog ==
  ASSUME TypeInv, LockInv, LogInv, NEW c \in Callers, Holds(c), NEW n, Attempt(c, n)
  PROVE  LogInv'
<1>1. CASE ~link.up
  <2>1. UNCHANGED <<log, call, calls>> /\ \A d \in Callers : phase'[d] \in {phase[d], "idle"}
    BY <1>1 DEF Attempt, End, TypeInv, TypeOK
  <2> QED
    BY <2>1, LogUntouched
<1>2. CASE link.up
  <2> DEFINE e == [call |-> call[c], cmd |-> cmd[c]]
  <2>1. /\ log' = Append(log, e) /\ phase' = [phase EXCEPT ![c] = "sent"]
        /\ UNCHANGED <<call, calls>>
    BY <1>2 DEF Attempt
  <2>2. phase[c] # "idle" /\ cmd[c] \in Commands /\ call[c] \in Nat
    BY HolderAt DEF TypeInv, TypeOK, Grounded
  <2>3. e \in Request /\ e.call = call[c] /\ log \in Seq(Request) /\ Len(log) \in Nat
    BY <2>2 DEF Request, TypeInv, TypeOK
  <2> HIDE DEF e
  <2>4. /\ Len(log') = Len(log) + 1
        /\ \A i \in 1..Len(log) : log'[i] = log[i]
        /\ log'[Len(log) + 1] = e
    BY <2>1, <2>3, AppendProperties
  <2>5. \A i \in 1..Len(log') : i \in 1..Len(log) \/ i = Len(log) + 1
    BY <2>3, <2>4
  <2>6. Suffix(c)
    BY <2>2 DEF LogInv, Suffix, TypeInv, TypeOK
  <2>7. \A d \in Callers : d # c => phase[d] # "sent" /\ phase'[d] = phase[d]
    BY <2>1 DEF LockInv, OneInFlight, Holds, TypeInv, TypeOK
  <2>8. phase'[c] = "sent"
    BY <2>1 DEF TypeInv, TypeOK
  <2>9. \A i \in 1..Len(log') : log'[i].call \in 1..calls'
    BY <2>1, <2>2, <2>3, <2>4, <2>5 DEF LogInv
  <2>10. /\ \A d \in Callers : phase'[d] # "idle" => call'[d] \in 1..calls'
         /\ \A d, f \in Callers :
              phase'[d] # "idle" /\ phase'[f] # "idle" /\ d # f => call'[d] # call'[f]
    BY <2>1, <2>2, <2>7, <2>8 DEF LogInv
  <2>11. ASSUME NEW d \in Callers, phase'[d] = "queued", NEW i \in 1..Len(log')
         PROVE  log'[i].call # call'[d]
    <3>1. d # c /\ phase[d] = "queued"
      BY <2>7, <2>8, <2>11
    <3>2. call[d] # call[c] /\ \A k \in 1..Len(log) : log[k].call # call[d]
      BY <2>2, <3>1 DEF LogInv
    <3> QED
      BY <2>1, <2>3, <2>4, <2>5, <3>2
  <2>12. Suffix(c)'
    BY <2>1, <2>3, <2>4, <2>5, <2>6 DEF Suffix
  <2>13. RetriesNotInterleaved'
    <3> SUFFICES ASSUME NEW i \in 1..Len(log'), NEW j \in 1..Len(log'),
                        i < j, log'[i].call = log'[j].call, NEW k \in i..j
                 PROVE  log'[k].call = log'[i].call
      BY DEF RetriesNotInterleaved
    <3>1. CASE j \in 1..Len(log)
      BY <2>3, <2>4, <3>1 DEF LogInv, RetriesNotInterleaved
    <3>2. CASE j = Len(log) + 1
      <4>1. i \in 1..Len(log) /\ log[i].call = call[c]
        BY <2>3, <2>4, <3>2
      <4>2. \A m \in i..Len(log) : log[m].call = call[c]
        BY <2>6, <4>1 DEF Suffix
      <4>3. k \in i..Len(log) \/ k = Len(log) + 1
        BY <2>3, <3>2
      <4> QED
        BY <2>3, <2>4, <3>2, <4>1, <4>2, <4>3
    <3> QED
      BY <2>5, <3>1, <3>2
  <2> QED
    BY <2>7, <2>8, <2>9, <2>10, <2>11, <2>12, <2>13 DEF LogInv
<1> QED
  BY <1>1, <1>2

LEMMA ExecuteLog ==
  ASSUME TypeInv, LogInv, NEW c \in Callers, NEW r \in Commands, Execute(c, r)
  PROVE  LogInv'
<1>1. /\ log' = log /\ calls' = calls + 1 /\ calls \in Nat
      /\ phase[c] = "idle" /\ phase'[c] = "queued" /\ call'[c] = calls + 1
      /\ \A d \in Callers : d # c => phase'[d] = phase[d] /\ call'[d] = call[d]
  BY DEF Execute, deviceVars, TypeInv, TypeOK
<1>2. \A i \in 1..Len(log) : log[i].call # calls + 1 /\ log[i].call \in 1..calls'
  BY <1>1 DEF LogInv
<1>3. \A d \in Callers : phase'[d] # "idle" => call'[d] \in 1..calls' /\ (d # c => call'[d] # calls + 1)
  BY <1>1 DEF LogInv
<1>4. \A d, f \in Callers :
        phase'[d] # "idle" /\ phase'[f] # "idle" /\ d # f => call'[d] # call'[f]
  BY <1>1, <1>3 DEF LogInv
<1>5. ASSUME NEW d \in Callers, phase'[d] = "sent"
      PROVE  Suffix(d)'
  BY <1>1, <1>5 DEF LogInv, Suffix
<1>6. RetriesNotInterleaved'
  BY <1>1 DEF LogInv, RetriesNotInterleaved
<1> QED
  BY <1>1, <1>2, <1>3, <1>4, <1>5, <1>6 DEF LogInv

LEMMA LogNext ==
  ASSUME TypeInv, LockInv, LogInv, [Next]_vars
  PROVE  LogInv'
<1>1. CASE \E c \in Callers, r \in Commands : Execute(c, r)
  BY <1>1, ExecuteLog
<1>2. ASSUME NEW c \in Callers, Start(c) \/ Timeout(c) \/ Resume(c)
      PROVE  LogInv'
  <2>1. Holds(c)
    BY <1>2 DEF Start, Timeout, Resume, LockInv, OneInFlight
  <2>2. CASE Start(c) \/ Retry(c)
    BY <2>1, <2>2, AttemptLog, EndLog DEF Start, Retry, RetryUpTo
  <2>3. CASE Resume(c)
    BY <2>2, <2>3, EndLog DEF Resume
  <2> QED
    BY <1>2, <2>2, <2>3 DEF Timeout
<1>3. CASE \E i \in 1..Len(queue) : Cancel(i)
  <2>1. UNCHANGED <<log, call, calls>> /\ \A d \in Callers : phase'[d] \in {phase[d], "idle"}
    BY <1>3 DEF Cancel, deviceVars, TypeInv, TypeOK
  <2> QED
    BY <2>1, LogUntouched
<1>4. CASE Deliver \/ OwnerSteps \/ Environment \/ UNCHANGED vars
  <2>1. UNCHANGED <<log, call, calls, phase>>
    BY <1>4 DEF Deliver, OwnerSteps, ConnectStart, ConnectOpened, ConnectSubscribed, HandshakeDone,
                ConnectFails, ConnectStep, Disconnect, Disconnected, Environment, Answer, Ignore,
                AtNoise, LinkDrops, vars, callVars, deviceVars
  <2> QED
    BY <2>1, LogUntouched
<1> QED
  BY <1>1, <1>2, <1>3, <1>4 DEF Next

\* No command of another call is written between two attempts of one call: the
\* lock spans the whole retry loop (client.py:64-105).
THEOREM ClientRetriesNotInterleaved == Spec => []RetriesNotInterleaved
<1>1. Init => LogInv
  BY DEF Init, LogInv, RetriesNotInterleaved
<1>2. IInv /\ LogInv /\ [Next]_vars => LogInv'
  BY LogNext DEF IInv
<1>3. LogInv => RetriesNotInterleaved
  BY DEF LogInv
<1> QED
  BY InitInv, NextInv, <1>1, <1>2, <1>3, PTL DEF Spec

-----------------------------------------------------------------------------
(* How often a call writes.                                                *)

WrittenIn(l, n) == {w \in 1..Len(l) : l[w].call = n}

\* The call in flight has written one request more than it has retried.
AttemptInv ==
  /\ \A n \in 1..calls : Cardinality(WrittenIn(log, n)) <= MaxRetries
  /\ \A c \in Callers : phase[c] = "sent" =>
       Cardinality(WrittenIn(log, call[c])) <= retries[c] + 1

\* A log has finitely many requests of each call.
LEMMA WrittenFinite ==
  ASSUME NEW l \in Seq(Request), NEW n
  PROVE  IsFiniteSet(WrittenIn(l, n)) /\ Cardinality(WrittenIn(l, n)) \in Nat
<1>1. IsFiniteSet(1..Len(l)) /\ WrittenIn(l, n) \subseteq 1..Len(l)
  BY FS_Interval DEF WrittenIn
<1> QED
  BY <1>1, FS_Subset, FS_CardinalityType

\* One request more counts for its own call and for no other.
LEMMA WrittenAppend ==
  ASSUME NEW l \in Seq(Request), NEW e \in Request, NEW n
  PROVE  Cardinality(WrittenIn(Append(l, e), n))
           = Cardinality(WrittenIn(l, n)) + (IF e.call = n THEN 1 ELSE 0)
<1> DEFINE t == Append(l, e)
<1>1. Len(l) \in Nat /\ Len(t) = Len(l) + 1 /\ t[Len(l) + 1] = e
      /\ \A i \in 1..Len(l) : t[i] = l[i]
  BY AppendProperties
<1> HIDE DEF t
<1>2. CASE e.call = n
  <2>1. WrittenIn(t, n) = WrittenIn(l, n) \cup {Len(l) + 1} /\ Len(l) + 1 \notin WrittenIn(l, n)
    BY <1>1, <1>2 DEF WrittenIn
  <2>2. Cardinality(WrittenIn(t, n)) = Cardinality(WrittenIn(l, n)) + 1
    BY <2>1, WrittenFinite, FS_AddElement
  <2> QED
    BY <1>2, <2>2 DEF t
<1>3. CASE e.call # n
  <2>1. WrittenIn(t, n) = WrittenIn(l, n)
    BY <1>1, <1>3 DEF WrittenIn
  <2> QED
    BY <1>3, <2>1, WrittenFinite DEF t
<1> QED
  BY <1>2, <1>3

\* A step that writes nothing, starts no call and sends nobody keeps AttemptInv.
LEMMA AttemptsUntouched ==
  ASSUME AttemptInv, UNCHANGED <<log, call, calls>>,
         \A c \in Callers : phase'[c] = "sent" => phase[c] = "sent" /\ retries'[c] = retries[c]
  PROVE  AttemptInv'
BY DEF AttemptInv

\* An attempt adds one request to its own call, which had as many as it retried.
LEMMA AttemptCounted ==
  ASSUME TypeInv, LockInv, LogInv, AttemptInv, NEW c \in Callers, Holds(c),
         NEW n \in 0..(MaxRetries - 1), Attempt(c, n),
         \/ phase[c] = "queued" /\ n = 0
         \/ phase[c] = "sent" /\ n = retries[c] + 1
  PROVE  AttemptInv'
<1>1. CASE ~link.up
  <2>1. /\ UNCHANGED <<log, call, calls>> /\ phase'[c] = "idle"
        /\ \A d \in Callers : d # c => phase'[d] = phase[d] /\ retries'[d] = retries[d]
    BY <1>1 DEF Attempt, End, TypeInv, TypeOK
  <2> QED
    BY <2>1, AttemptsUntouched
<1>2. CASE link.up
  <2> DEFINE e == [call |-> call[c], cmd |-> cmd[c]]
  <2>1. /\ log' = Append(log, e) /\ UNCHANGED <<call, calls>>
        /\ phase' = [phase EXCEPT ![c] = "sent"] /\ retries' = [retries EXCEPT ![c] = n]
    BY <1>2 DEF Attempt
  <2>2. cmd[c] \in Commands /\ call[c] \in Nat /\ log \in Seq(Request) /\ MaxRetries \in Nat
    BY HolderAt, ClientAssumption DEF TypeInv, TypeOK, Grounded
  <2>3. e \in Request /\ e.call = call[c]
    BY <2>2 DEF Request
  <2> HIDE DEF e
  <2>4. \A m : Cardinality(WrittenIn(log', m))
                 = Cardinality(WrittenIn(log, m)) + (IF call[c] = m THEN 1 ELSE 0)
    BY <2>1, <2>2, <2>3, WrittenAppend
  <2>5. \A m : Cardinality(WrittenIn(log, m)) \in Nat
    BY <2>2, WrittenFinite
  <2>6. Cardinality(WrittenIn(log, call[c])) <= n
    <3>1. CASE phase[c] = "queued" /\ n = 0
      <4>1. WrittenIn(log, call[c]) = {}
        BY <3>1 DEF LogInv, WrittenIn
      <4> QED
        BY <3>1, <4>1, FS_EmptySet
    <3>2. CASE phase[c] = "sent" /\ n = retries[c] + 1
      BY <3>2 DEF AttemptInv
    <3> QED
      BY <3>1, <3>2
  <2>7. \A d \in Callers : d # c => phase'[d] # "sent"
    BY <2>1 DEF LockInv, OneInFlight, Holds, TypeInv, TypeOK
  <2>8. retries'[c] = n
    BY <2>1 DEF TypeInv, TypeOK
  <2> HIDE DEF WrittenIn
  <2>9. ASSUME NEW m \in 1..calls'
        PROVE  Cardinality(WrittenIn(log', m)) <= MaxRetries
    <3>1. m \in 1..calls
      BY <2>1
    <3>2. Cardinality(WrittenIn(log, m)) <= MaxRetries
      BY <3>1 DEF AttemptInv
    <3> QED
      BY <2>2, <2>4, <2>5, <2>6, <3>2
  <2>10. Cardinality(WrittenIn(log', call'[c])) <= retries'[c] + 1
    BY <2>1, <2>4, <2>5, <2>6, <2>8
  <2> QED
    BY <2>7, <2>9, <2>10 DEF AttemptInv
<1> QED
  BY <1>1, <1>2

\* A new call has written nothing.
LEMMA AttemptsOfExecute ==
  ASSUME TypeInv, LogInv, AttemptInv, NEW c \in Callers, NEW r \in Commands, Execute(c, r)
  PROVE  AttemptInv'
<1>1. /\ log' = log /\ calls' = calls + 1 /\ calls \in Nat /\ MaxRetries \in Nat
      /\ phase'[c] = "queued"
      /\ \A d \in Callers : d # c =>
           phase'[d] = phase[d] /\ call'[d] = call[d] /\ retries'[d] = retries[d]
  BY ClientAssumption DEF Execute, deviceVars, TypeInv, TypeOK
<1>2. WrittenIn(log, calls + 1) = {}
  BY <1>1 DEF LogInv, WrittenIn
<1>3. Cardinality(WrittenIn(log, calls + 1)) = 0
  BY <1>2, FS_EmptySet
<1>4. \A n \in 1..calls' : n \in 1..calls \/ n = calls + 1
  BY <1>1
<1> QED
  BY <1>1, <1>3, <1>4 DEF AttemptInv

\* Every step keeps AttemptInv.
LEMMA AttemptNext ==
  ASSUME TypeInv, LockInv, LogInv, AttemptInv, [Next]_vars
  PROVE  AttemptInv'
<1>1. CASE \E c \in Callers, r \in Commands : Execute(c, r)
  BY <1>1, AttemptsOfExecute
<1>2. ASSUME NEW c \in Callers, NEW result, EndHere(c, result)
      PROVE  AttemptInv'
  <2>1. /\ UNCHANGED <<log, call, calls, retries>>
        /\ \A d \in Callers : phase'[d] \in {phase[d], "idle"}
    BY <1>2 DEF EndHere, End, deviceVars, TypeInv, TypeOK
  <2> QED
    BY <2>1, AttemptsUntouched
<1>3. ASSUME NEW c \in Callers, phase[c] = "sent", Retry(c)
      PROVE  AttemptInv'
  <2>1. CASE EndHere(c, Failed("badconn"))
    BY <1>2, <2>1
  <2>2. CASE retries[c] + 1 < MaxRetries /\ Attempt(c, retries[c] + 1)
    <3>1. Holds(c) /\ retries[c] + 1 \in 0..(MaxRetries - 1)
      BY <1>3, <2>2, ClientAssumption DEF LockInv, OneInFlight, TypeInv, TypeOK
    <3> QED
      BY <1>3, <2>2, <3>1, AttemptCounted
  <2> QED
    BY <1>3, <2>1, <2>2 DEF Retry, RetryUpTo
<1>4. ASSUME NEW c \in Callers, Start(c)
      PROVE  AttemptInv'
  <2>1. phase[c] = "queued" /\ Holds(c) /\ Attempt(c, 0) /\ 0 \in 0..(MaxRetries - 1)
    BY <1>4, ClientAssumption DEF Start
  <2> QED
    BY <2>1, AttemptCounted
<1>5. ASSUME NEW c \in Callers, Timeout(c) \/ Resume(c)
      PROVE  AttemptInv'
  BY <1>2, <1>3, <1>5 DEF Timeout, Resume
<1>6. CASE \E i \in 1..Len(queue) : Cancel(i)
  <2>1. /\ UNCHANGED <<log, call, calls, retries>>
        /\ \A d \in Callers : phase'[d] \in {phase[d], "idle"}
    BY <1>6 DEF Cancel, deviceVars, TypeInv, TypeOK
  <2> QED
    BY <2>1, AttemptsUntouched
<1>7. CASE Deliver \/ OwnerSteps \/ Environment \/ UNCHANGED vars
  <2>1. UNCHANGED <<log, call, calls, phase, retries>>
    BY <1>7 DEF Deliver, OwnerSteps, ConnectStart, ConnectOpened, ConnectSubscribed, HandshakeDone,
                ConnectFails, ConnectStep, Disconnect, Disconnected, Environment, Answer, Ignore,
                AtNoise, LinkDrops, vars, callVars, deviceVars
  <2> QED
    BY <2>1, AttemptsUntouched
<1> QED
  BY <1>1, <1>4, <1>5, <1>6, <1>7 DEF Next

\* A call writes its command MAX_RETRIES times at most, for any number of tasks and
\* wherever replies, timeouts and cancellations fall (client.py:74-105).
THEOREM ClientAttemptsBounded == Spec => []AttemptsBounded
<1>1. Init => LogInv /\ AttemptInv
  BY DEF Init, LogInv, RetriesNotInterleaved, AttemptInv
<1>2. IInv /\ LogInv /\ AttemptInv /\ [Next]_vars => LogInv' /\ AttemptInv'
  BY LogNext, AttemptNext DEF IInv
<1>3. AttemptInv => AttemptsBounded
  BY DEF AttemptInv, AttemptsBounded, WrittenIn
<1> QED
  BY InitInv, NextInv, <1>1, <1>2, <1>3, PTL DEF Spec

-----------------------------------------------------------------------------
(* What a call returns.                                                    *)

\* Every unit of s belongs to one of the first n requests.
KnownIn(s, n) == \A j \in 1..Len(s) : s[j].req \in 1..n

\* A reply to p may be taken for one to r: on a plain link it has its length, on an
\* encrypted one it has no more units.
Fitting(p, r) ==
  \/ p \in Tlv /\ r \in Tlv
  \/ encrypted /\ Expect[TRUE][p] <= Expect[TRUE][r]
  \/ ~encrypted /\ Expect[FALSE][p] = Expect[FALSE][r]

Traced ==
  /\ \A i \in 1..Len(air) : air[i] = AtNotice \/ KnownIn(air[i], Len(log))
  /\ KnownIn(buffer, Len(log))

\* Before its first session an encrypting device has read nothing that it could answer.
Sessions ==
  /\ encrypted /\ link.session = "none" =>
       inbox = <<>> /\ future.st # "result" /\ \A i \in 1..Len(air) : air[i] = AtNotice
  /\ ~encrypted => link.session = "none" /\ link.step # "handshaking"

Ready ==
  future.st = "result" =>
    /\ future.raw[1].req \in 1..Len(log)
    /\ ~encrypted /\ future.raw[1].kind # "exception" =>
         Fitting(log[future.raw[1].req].cmd, current)
    /\ encrypted => Len(future.raw) = Expect[TRUE][current]

Answered ==
  \A c \in Callers : outcome[c].kind = "ok" =>
    outcome[c].req \in 1..Len(log) /\ Fitting(log[outcome[c].req].cmd, cmd[c])

ReplyInv == Traced /\ Sessions /\ Ready /\ Answered

\* The log only grows.
LogKept ==
  /\ encrypted' = encrypted
  /\ \A w \in 1..Len(log) : w \in 1..Len(log') /\ log'[w] = log[w]

\* Requests stay known when the log grows.
LEMMA KnownKept ==
  ASSUME LogKept, NEW s, KnownIn(s, Len(log))
  PROVE  KnownIn(s, Len(log'))
BY DEF LogKept, KnownIn

\* A step that gives nobody an answer keeps those there are.
LEMMA AnsweredKept ==
  ASSUME Answered, LogKept,
         \A c \in Callers : \/ outcome'[c] = outcome[c] /\ cmd'[c] = cmd[c]
                            \/ outcome'[c].kind # "ok"
  PROVE  Answered'
<1> SUFFICES ASSUME NEW c \in Callers, outcome'[c].kind = "ok"
             PROVE  (outcome[c].req \in 1..Len(log) /\ Fitting(log[outcome[c].req].cmd, cmd[c]))'
  BY Zenon DEF Answered
<1>1. outcome'[c] = outcome[c] /\ cmd'[c] = cmd[c]
  OBVIOUS
<1> DEFINE r == outcome[c].req
<1>2. r \in 1..Len(log) /\ Fitting(log[r].cmd, cmd[c])
  BY <1>1 DEF Answered
<1>3. r' = r /\ r \in 1..Len(log') /\ log'[r] = log[r] /\ encrypted' = encrypted
  BY <1>1, <1>2, Zenon DEF LogKept
<1> QED
  BY <1>1, <1>2, <1>3, Zenon DEF Fitting

\* Appending to the log is one way to keep it.
LEMMA AppendKept ==
  ASSUME TypeOK, encrypted' = encrypted, NEW e, log' = Append(log, e) \/ log' = log
  PROVE  LogKept
<1>1. log \in Seq(Request) /\ Len(log) \in Nat
  BY DEF TypeOK
<1>2. CASE log' = log
  BY <1>2 DEF LogKept
<1>3. CASE log' = Append(log, e)
  BY <1>1, <1>3 DEF LogKept
<1> QED
  BY <1>2, <1>3

\* An end of a call that answers it as it may be, or not at all.
LEMMA EndAnswers ==
  ASSUME TypeInv, ReplyInv, NEW c \in Callers, NEW result, EndHere(c, result),
         result.kind = "ok" => result.req \in 1..Len(log) /\ Fitting(log[result.req].cmd, cmd[c])
  PROVE  ReplyInv'
<1>1. /\ UNCHANGED <<cmd, notifyVars, link, encrypted, deviceVars>>
      /\ outcome' = [outcome EXCEPT ![c] = result]
  BY DEF EndHere, End
<1>2. UNCHANGED <<cmd, current, future, buffer, link, encrypted, air, inbox, log>>
  BY <1>1 DEF notifyVars, deviceVars
<1>3. Traced' /\ Sessions' /\ Ready'
  BY <1>2 DEF ReplyInv, Traced, Sessions, Ready, Fitting
<1>4. outcome'[c] = result /\ \A d \in Callers : d # c => outcome'[d] = outcome[d]
  BY <1>1 DEF TypeInv, TypeOK
<1>5. Answered'
  BY <1>2, <1>4 DEF ReplyInv, Answered, Fitting
<1> QED
  BY <1>3, <1>5 DEF ReplyInv

\* An attempt starts from an empty buffer, and a device without a session never reads it.
LEMMA AttemptAnswers ==
  ASSUME TypeInv, ReplyInv, NEW c \in Callers, NEW n, Attempt(c, n)
  PROVE  ReplyInv'
<1>1. /\ UNCHANGED <<cmd, link, encrypted, air>> /\ buffer' = <<>> /\ future'.st = "pending"
      /\ log' = log \/ log' = Append(log, [call |-> call[c], cmd |-> cmd[c]])
      /\ outcome' = outcome \/ outcome' = [outcome EXCEPT ![c] = Failed("link")]
      /\ encrypted /\ link.session = "none" => inbox' = inbox
  BY DEF Attempt, End
<1>2. LogKept
  BY <1>1, AppendKept DEF TypeInv
<1>3. Traced'
  <2>1. \A i \in 1..Len(air) : air[i] = AtNotice \/ KnownIn(air[i], Len(log'))
    BY <1>2, KnownKept DEF ReplyInv, Traced
  <2>2. KnownIn(<<>>, Len(log'))
    BY DEF KnownIn
  <2> QED
    BY <1>1, <2>1, <2>2 DEF Traced
<1>4. Sessions' /\ Ready'
  BY <1>1 DEF ReplyInv, Sessions, Ready
<1>5. \A d \in Callers : outcome'[d] = outcome[d] \/ outcome'[d].kind # "ok"
  BY <1>1 DEF Failed, TypeInv, TypeOK
<1>6. Answered'
  BY <1>1, <1>2, <1>5, AnsweredKept DEF ReplyInv
<1> QED
  BY <1>3, <1>4, <1>6 DEF ReplyInv

\* A retry gives no answer, and neither does giving up.
LEMMA RetryAnswers ==
  ASSUME TypeInv, ReplyInv, NEW c \in Callers, Retry(c)
  PROVE  ReplyInv'
<1>1. CASE EndHere(c, Failed("badconn"))
  BY <1>1, EndAnswers DEF Failed
<1> QED
  BY <1>1, AttemptAnswers DEF Retry, RetryUpTo

\* Every request of the log has a command.
LEMMA CommandsLogged ==
  ASSUME TypeOK, NEW w \in 1..Len(log)
  PROVE  log[w].cmd \in Commands
<1>1. log \in Seq(Request)
  BY DEF TypeOK
<1>2. log[w] \in Request
  BY <1>1
<1> QED
  BY <1>2 DEF Request

\* What may be accepted fits the command of the caller that waits for it.
LEMMA AcceptedFits ==
  ASSUME TypeInv, LockInv, ReplyInv, NEW c \in Callers, phase[c] = "sent", future.st = "result",
         link.session = "none" \/ "valid" \in Decoded(future.raw)
  PROVE  Accepted(future.raw[1]).kind = "ok" =>
           /\ Accepted(future.raw[1]).req \in 1..Len(log)
           /\ Fitting(log[Accepted(future.raw[1]).req].cmd, cmd[c])
<1>0. current = cmd[c]
  BY DEF LockInv, OneInFlight
<1> SUFFICES ASSUME Accepted(future.raw[1]).kind = "ok"
             PROVE  /\ Accepted(future.raw[1]).req \in 1..Len(log)
                    /\ Fitting(log[Accepted(future.raw[1]).req].cmd, cmd[c])
  OBVIOUS
<1>1. future.raw[1].kind # "exception" /\ Accepted(future.raw[1]).req = future.raw[1].req
  BY DEF Accepted, Failed
<1>2. future.raw[1].req \in 1..Len(log)
  BY DEF ReplyInv, Ready
<1>3. CASE ~encrypted
  BY <1>0, <1>1, <1>2, <1>3 DEF ReplyInv, Ready
<1>4. CASE encrypted
  <2>1. "valid" \in Decoded(future.raw)
    BY <1>4 DEF ReplyInv, Sessions
  <2>2. ~(ReplyLen(future.raw[1].req, future.raw[1].kind) > Len(future.raw))
    BY <2>1 DEF Decoded
  <2>3. encrypted = TRUE
    BY <1>4, Zenon DEF TypeInv, TypeOK
  <2>4. ReplyLen(future.raw[1].req, future.raw[1].kind) = Expect[TRUE][log[future.raw[1].req].cmd]
    BY <1>1, <2>3 DEF ReplyLen
  <2>5. Len(future.raw) = Expect[TRUE][current] /\ current = cmd[c] /\ cmd[c] \in Commands
    BY <1>0, <1>4 DEF ReplyInv, Ready, TypeInv, Grounded
  <2>6. log[future.raw[1].req].cmd \in Commands
    BY <1>2, CommandsLogged DEF TypeInv
  <2>7. \A p, r \in Commands :
          ~(Expect[TRUE][p] > Expect[TRUE][r]) => Expect[TRUE][p] <= Expect[TRUE][r]
    <3>1. TRUE \in BOOLEAN
      BY Zenon
    <3>2. Expect[TRUE] \in [Commands -> Nat \ {0}]
      BY <3>1, ClientAssumption, Zenon
    <3> DEFINE f == Expect[TRUE]
    <3> HIDE DEF f
    <3>3. \A p, r \in Commands : f[p] \in Nat /\ f[r] \in Nat
      BY <3>2 DEF f
    <3>4. \A p, r \in Commands : ~(f[p] > f[r]) => f[p] <= f[r]
      BY <3>3
    <3> QED
      BY <3>4 DEF f
  <2>8. ~(Expect[TRUE][log[future.raw[1].req].cmd] > Expect[TRUE][cmd[c]])
    BY <2>2, <2>4, <2>5
  <2>9. Expect[TRUE][log[future.raw[1].req].cmd] <= Expect[TRUE][cmd[c]]
    BY <2>5, <2>6, <2>7, <2>8
  <2> QED
    BY <1>1, <1>2, <1>4, <2>9 DEF Fitting
<1> QED
  BY <1>3, <1>4

\* What the caller makes of the bytes it was given.
LEMMA ResumeAnswers ==
  ASSUME TypeInv, LockInv, ReplyInv, NEW c \in Callers, Resume(c)
  PROVE  ReplyInv'
<1>1. phase[c] = "sent"
  BY DEF Resume
<1>2. CASE Retry(c)
  BY <1>2, RetryAnswers
<1>3. CASE \E kind \in {"badconn", "cancelled", "crash"} : EndHere(c, Failed(kind))
  BY <1>3, EndAnswers DEF Failed
<1>4. CASE /\ future.st = "result" /\ EndHere(c, Accepted(future.raw[1]))
           /\ link.session = "none" \/ "valid" \in Decoded(future.raw)
  BY <1>1, <1>4, AcceptedFits, EndAnswers
<1> QED
  BY <1>2, <1>3, <1>4 DEF Resume

\* A step that leaves the client's side and what is on its way alone.
LEMMA RepliesUntouched ==
  ASSUME ReplyInv, UNCHANGED <<log, encrypted, current, buffer, future, link, air, inbox>>,
         \A c \in Callers : \/ outcome'[c] = outcome[c] /\ cmd'[c] = cmd[c]
                            \/ outcome'[c].kind # "ok"
  PROVE  ReplyInv'
<1>1. LogKept
  BY DEF LogKept
<1>2. Traced' /\ Sessions' /\ Ready'
  BY DEF ReplyInv, Traced, Sessions, Ready, Fitting
<1> QED
  BY <1>1, <1>2, AnsweredKept DEF ReplyInv

\* A step of the device, the link or the owner: it gives no answer, and what it leaves
\* of the future, the air and the inbox was there before.
LEMMA LinkChanges ==
  ASSUME ReplyInv, UNCHANGED <<log, encrypted, current, buffer, outcome, cmd>>,
         future' = future \/ future'.st = "cancelled",
         Traced', Sessions'
  PROVE  ReplyInv'
<1>1. LogKept
  BY DEF LogKept
<1>2. Ready'
  BY DEF ReplyInv, Ready, Fitting
<1> QED
  BY <1>1, <1>2, AnsweredKept DEF ReplyInv

\* Joining the queue and leaving it give nobody an answer.
LEMMA QueueAnswers ==
  ASSUME TypeInv, ReplyInv,
         (\E c \in Callers, r \in Commands : Execute(c, r)) \/ (\E i \in 1..Len(queue) : Cancel(i))
  PROVE  ReplyInv'
<1>1. ASSUME NEW c \in Callers, NEW r \in Commands, Execute(c, r)
      PROVE  ReplyInv'
  <2>1. /\ UNCHANGED <<log, encrypted, current, buffer, future, link, air, inbox>>
        /\ outcome' = [outcome EXCEPT ![c] = Failed("none")] /\ cmd' = [cmd EXCEPT ![c] = r]
    BY <1>1 DEF Execute, notifyVars, deviceVars
  <2>2. \A d \in Callers : \/ outcome'[d] = outcome[d] /\ cmd'[d] = cmd[d]
                           \/ outcome'[d].kind # "ok"
    BY <2>1 DEF Failed, TypeInv, TypeOK
  <2> QED
    BY <2>1, <2>2, RepliesUntouched
<1>2. ASSUME NEW i \in 1..Len(queue), Cancel(i)
      PROVE  ReplyInv'
  <2>1. /\ UNCHANGED <<log, encrypted, current, buffer, link, air, inbox, cmd>>
        /\ future' = future \/ future'.st = "cancelled"
        /\ outcome' = [outcome EXCEPT ![queue[i]] = Failed("cancelled")]
    BY <1>2 DEF Cancel, deviceVars, TypeInv, TypeOK, Future
  <2>2. \A d \in Callers : outcome'[d] = outcome[d] \/ outcome'[d].kind # "ok"
    BY <2>1 DEF Failed, TypeInv, TypeOK
  <2>3. LogKept
    BY <2>1 DEF LogKept
  <2>4. Answered'
    BY <2>1, <2>2, <2>3, AnsweredKept DEF ReplyInv
  <2>5. Traced' /\ Sessions' /\ Ready'
    BY <2>1 DEF ReplyInv, Traced, Sessions, Ready, Fitting
  <2> QED
    BY <2>4, <2>5 DEF ReplyInv
<1> QED
  BY <1>1, <1>2

\* A whole reply on a plain link has the length its command waits for.
LEMMA ValidFits ==
  ASSUME TypeInv, ~encrypted, NEW raw \in Seq(Unit), raw # <<>>, current \in Commands,
         Len(raw) = Expect[FALSE][current], IsValid(raw),
         raw[1].req \in 1..Len(log), raw[1].kind # "exception"
  PROVE  Fitting(log[raw[1].req].cmd, current)
<1>1. CASE current \in Tlv /\ log[raw[1].req].cmd \in Tlv
  BY <1>1 DEF Fitting
<1>2. CASE CrcHolds(raw)
  <2>1. raw[1].kind = "data" /\ raw = Reply(raw[1].req, "data")
    BY <1>2 DEF CrcHolds
  <2>2. Len(raw) = ReplyLen(raw[1].req, "data")
    BY <2>1, ReplyType DEF TypeInv, Kinds
  <2>3. encrypted = FALSE
    BY Zenon DEF TypeInv, TypeOK
  <2>4. ReplyLen(raw[1].req, "data") = Expect[FALSE][log[raw[1].req].cmd]
    BY <2>3 DEF ReplyLen
  <2> QED
    BY <2>2, <2>4 DEF Fitting
<1> QED
  BY <1>1, <1>2 DEF IsValid

\* A notification completes the future only with what the current command waits for.
LEMMA DeliverAnswers ==
  ASSUME TypeInv, ReplyInv, Deliver
  PROVE  ReplyInv'
<1>1. /\ UNCHANGED <<log, encrypted, current, link, inbox, outcome, cmd>>
      /\ air # <<>> /\ air' = Tail(air) /\ air \in Seq(Seq(Unit))
  BY DEF Deliver, callVars, TypeInv, TypeOK
<1>2. /\ Len(air) \in Nat \ {0} /\ Head(air) = air[1] /\ Head(air) \in Seq(Unit)
      /\ Len(air') = Len(air) - 1 /\ \A i \in 1..Len(air') : air'[i] = air[i + 1]
  BY <1>1, EmptySeq, HeadTailProperties
<1>3. \A i \in 1..Len(air') : air'[i] = AtNotice \/ KnownIn(air'[i], Len(log'))
  BY <1>1, <1>2 DEF ReplyInv, Traced
<1>4. encrypted /\ link.session = "none" =>
        Head(air) = AtNotice /\ \A i \in 1..Len(air') : air'[i] = AtNotice
  BY <1>2 DEF ReplyInv, Sessions
<1>5. LogKept /\ Answered'
  BY <1>1, AnsweredKept DEF ReplyInv, LogKept
<1>6. CASE UNCHANGED buffer /\ (future' = future \/ future'.st # "result")
  BY <1>1, <1>3, <1>4, <1>5, <1>6 DEF ReplyInv, Traced, Sessions, Ready, Fitting
<1>7. CASE Wanted /\ Head(air) # AtNotice
  <2>1. KnownIn(Head(air), Len(log)) /\ KnownIn(buffer, Len(log)) /\ buffer \in Seq(Unit)
    <3>1. 1 \in 1..Len(air) /\ air[1] # AtNotice
      BY <1>2, <1>7
    <3>2. KnownIn(air[1], Len(log)) /\ KnownIn(buffer, Len(log))
      BY <3>1 DEF ReplyInv, Traced
    <3> QED
      BY <1>2, <3>2 DEF TypeInv, TypeOK
  <2>2. Gathered \in Seq(Unit) /\ KnownIn(Gathered, Len(log))
    BY <1>2, <2>1, ConcatProperties DEF Gathered, KnownIn
  <2>3. buffer' = Gathered /\ ~(encrypted /\ link.session = "none")
    BY <1>4, <1>7 DEF Deliver
  <2>4. current \in Commands /\ Expected \in Nat \ {0} /\ future.st = "pending"
    BY <1>7, ClientAssumption DEF Expected, Wanted, ClientAssumption, TypeInv, Grounded
  <2>5. Traced'
    BY <1>1, <1>3, <2>2, <2>3 DEF Traced
  <2>6. Sessions'
    BY <1>1, <1>4, <2>3 DEF ReplyInv, Sessions
  <2>7. Ready'
    <3>1. CASE future'.st # "result"
      BY <3>1 DEF Ready
    <3>2. CASE future'.st = "result"
      <4> DEFINE raw == SubSeq(Gathered, 1, Expected)
      <4>1. /\ ~(Len(Gathered) < Expected)
            /\ future' = [st |-> "result", raw |-> raw]
            /\ link.session = "none" => IsValid(raw)
        <5>1. /\ Len(Gathered) < Expected => future' = future
              /\ ~(Len(Gathered) < Expected) =>
                   future' = IF link.session = "none" /\ ~IsValid(raw)
                             THEN [future EXCEPT !.st = "parse"] ELSE [st |-> "result", raw |-> raw]
          BY <1>7 DEF Deliver
        <5>2. [future EXCEPT !.st = "parse"].st = "parse"
          BY DEF TypeInv, TypeOK, Future
        <5> QED
          BY <2>4, <3>2, <5>1, <5>2
      <4>2. Len(Gathered) >= Expected
        BY <2>2, <2>4, <4>1
      <4>3. raw \in Seq(Unit) /\ Len(raw) = Expected /\ raw # <<>> /\ raw[1] = Gathered[1]
            /\ 1 \in 1..Len(Gathered)
        BY <2>2, <2>4, <4>2, PrefixType
      <4> HIDE DEF raw
      <4>4. raw[1].req \in 1..Len(log)
        BY <2>2, <4>3 DEF KnownIn
      <4>5. CASE ~encrypted
        <5>1. link.session = "none"
          BY <4>5 DEF ReplyInv, Sessions
        <5>2. Expected = Expect[FALSE][current]
          BY <5>1 DEF Expected
        <5>3. raw[1].kind # "exception" => Fitting(log[raw[1].req].cmd, current)
          BY <2>4, <4>1, <4>3, <4>4, <4>5, <5>1, <5>2, ValidFits
        <5> QED
          BY <1>1, <4>1, <4>4, <4>5, <5>3 DEF Ready, Fitting
      <4>6. CASE encrypted
        <5>1. Expected = Expect[TRUE][current]
          BY <2>3, <4>6 DEF Expected
        <5> QED
          BY <1>1, <4>1, <4>3, <4>4, <4>6, <5>1 DEF Ready
      <4> QED
        BY <4>5, <4>6
    <3> QED
      BY <3>1, <3>2
  <2> QED
    BY <1>5, <2>5, <2>6, <2>7 DEF ReplyInv
<1>8. ~(Wanted /\ Head(air) # AtNotice) =>
        UNCHANGED buffer /\ (future' = future \/ future'.st # "result")
  BY DEF Deliver, TypeInv, TypeOK, Future
<1> QED
  BY <1>6, <1>7, <1>8

\* connect and disconnect: a session is of this link or a link before.
LEMMA OwnerAnswers ==
  ASSUME TypeInv, ReplyInv, OwnerSteps
  PROVE  ReplyInv'
<1>1. UNCHANGED <<log, encrypted, current, buffer, outcome, cmd>>
  BY DEF OwnerSteps, ConnectStart, ConnectOpened, ConnectSubscribed, HandshakeDone, ConnectFails,
         ConnectStep, Disconnect, Disconnected, callVars, notifyVars, deviceVars
<1>2. CASE ConnectStart \/ ConnectOpened \/ ConnectSubscribed \/ HandshakeDone \/ ConnectFails
  <2>1. UNCHANGED <<future, air, inbox>>
    BY <1>2 DEF ConnectStart, ConnectOpened, ConnectSubscribed, HandshakeDone, ConnectFails,
                ConnectStep, notifyVars, deviceVars
  <2>2. /\ link'.session = link.session \/ (HandshakeDone /\ link.step = "handshaking")
        /\ link'.step = "handshaking" => link.step = "handshaking" \/ encrypted
        /\ HandshakeDone => link'.session = "fresh"
    BY <1>2 DEF ConnectStart, ConnectOpened, ConnectSubscribed, HandshakeDone, ConnectFails,
                ConnectStep, TypeInv, TypeOK, Link
  <2>3. Sessions'
    BY <1>1, <2>1, <2>2 DEF ReplyInv, Sessions
  <2>4. Traced'
    BY <1>1, <2>1 DEF ReplyInv, Traced
  <2> QED
    BY <1>1, <2>1, <2>3, <2>4, LinkChanges
<1>3. CASE Disconnect
  <2>1. /\ air' = <<>> /\ inbox' = inbox /\ link'.session = link.session
        /\ link'.step # "handshaking" /\ (future' = future \/ future'.st = "cancelled")
    BY <1>3 DEF Disconnect, TypeInv, TypeOK, Link, Future
  <2>2. Traced' /\ Sessions'
    BY <1>1, <2>1 DEF ReplyInv, Traced, Sessions
  <2> QED
    BY <1>1, <2>1, <2>2, LinkChanges
<1>4. CASE Disconnected
  <2>1. /\ air' = <<>> /\ inbox' = <<>> /\ future' = future /\ link'.step = "idle"
        /\ link'.session = "none" <=> link.session = "none"
    BY <1>4 DEF Disconnected, LinkDown, notifyVars, TypeInv, TypeOK, Link
  <2>2. Traced' /\ Sessions'
    BY <1>1, <2>1 DEF ReplyInv, Traced, Sessions
  <2> QED
    BY <1>1, <2>1, <2>2, LinkChanges
<1> QED
  BY <1>2, <1>3, <1>4 DEF OwnerSteps

\* Both notifications of a reply carry units of its request.
LEMMA PiecesKnown ==
  ASSUME TypeOK, NEW w \in 1..Len(log), NEW kind \in Kinds, NEW cut \in 1..ReplyLen(w, kind)
  PROVE  LET pieces == InPieces(Reply(w, kind), cut)
         IN  /\ pieces \in Seq(Seq(Unit))
             /\ \A i \in 1..Len(pieces) : KnownIn(pieces[i], Len(log))
<1> DEFINE reply == Reply(w, kind)
<1>1. reply \in Seq(Unit) /\ cut \in 1..Len(reply) /\ Len(reply) \in Nat
  BY ReplyType
<1>2. \A j \in 1..Len(reply) : reply[j].req = w
  BY ReplyType DEF Reply
<1> HIDE DEF reply
<1>3. InPieces(reply, cut) \in Seq(Seq(Unit))
  BY <1>1, PiecesType
<1>4. KnownIn(reply, Len(log))
  BY <1>2 DEF KnownIn
<1>5. KnownIn(SubSeq(reply, 1, cut), Len(log)) /\ KnownIn(SubSeq(reply, cut + 1, Len(reply)), Len(log))
  BY SMTT(30), <1>1, <1>2 DEF KnownIn
<1>6. \A i \in 1..Len(InPieces(reply, cut)) : KnownIn(InPieces(reply, cut)[i], Len(log))
  <2>1. CASE cut = Len(reply)
    BY <1>4, <2>1 DEF InPieces
  <2>2. CASE cut # Len(reply)
    <3> DEFINE a == SubSeq(reply, 1, cut)
               b == SubSeq(reply, cut + 1, Len(reply))
    <3>1. InPieces(reply, cut) = <<a, b>> /\ KnownIn(a, Len(log)) /\ KnownIn(b, Len(log))
      BY <1>5, <2>2 DEF InPieces
    <3> HIDE DEF a, b
    <3> QED
      BY <3>1
  <2> QED
    BY <2>1, <2>2
<1> QED
  BY <1>3, <1>6 DEF reply

\* The device answers what it has read, and only that.
LEMMA EnvironmentAnswers ==
  ASSUME TypeInv, ReplyInv, Environment
  PROVE  ReplyInv'
<1>1. UNCHANGED <<log, encrypted, current, buffer, outcome, cmd, future>>
  BY DEF Environment, Answer, Ignore, AtNoise, LinkDrops, callVars, notifyVars
<1>2. air \in Seq(Seq(Unit)) /\ inbox \in Seq(Nat) /\ Len(air) \in Nat
  BY DEF TypeInv, TypeOK
<1>3. CASE Answer
  <2>1. inbox # <<>> /\ UNCHANGED link
    BY <1>3 DEF Answer
  <2>2. ~(encrypted /\ link.session = "none")
    BY <2>1 DEF ReplyInv, Sessions
  <2>3. Head(inbox) \in 1..Len(log)
    <3>1. Len(inbox) \in Nat \ {0} /\ Head(inbox) = inbox[1]
      BY <1>2, <2>1, EmptySeq
    <3> QED
      BY <3>1 DEF TypeInv, Grounded
  <2>4. PICK kind \in Kinds : \E cut \in 1..ReplyLen(Head(inbox), kind) :
          air' = air \/ air' = air \o InPieces(Reply(Head(inbox), kind), cut)
    BY <1>3 DEF Answer, Kinds
  <2>5. PICK cut \in 1..ReplyLen(Head(inbox), kind) :
          air' = air \/ air' = air \o InPieces(Reply(Head(inbox), kind), cut)
    BY <2>4
  <2> DEFINE pieces == InPieces(Reply(Head(inbox), kind), cut)
  <2>6. pieces \in Seq(Seq(Unit)) /\ \A i \in 1..Len(pieces) : KnownIn(pieces[i], Len(log))
    BY <2>3, PiecesKnown DEF TypeInv
  <2> HIDE DEF pieces
  <2>7. air' = air \/ air' = air \o pieces
    BY <2>5 DEF pieces
  <2>8. \A i \in 1..Len(air') : air'[i] = AtNotice \/ KnownIn(air'[i], Len(log))
    <3>1. CASE air' = air
      BY <3>1 DEF ReplyInv, Traced
    <3>2. CASE air' = air \o pieces
      <4>1. /\ Len(air') = Len(air) + Len(pieces) /\ Len(pieces) \in Nat
            /\ \A i \in 1..Len(air) + Len(pieces) :
                 air'[i] = IF i <= Len(air) THEN air[i] ELSE pieces[i - Len(air)]
        BY <1>2, <2>6, <3>2, ConcatProperties
      <4>2. \A i \in 1..Len(air') : i \in 1..Len(air) \/ i - Len(air) \in 1..Len(pieces)
        BY <1>2, <4>1
      <4> QED
        <5>1. \A i \in 1..Len(air) : air[i] = AtNotice \/ KnownIn(air[i], Len(log))
          BY DEF ReplyInv, Traced
        <5>2. \A i \in 1..Len(air') :
                \/ i \in 1..Len(air) /\ air'[i] = air[i]
                \/ i - Len(air) \in 1..Len(pieces) /\ air'[i] = pieces[i - Len(air)]
          BY <1>2, <4>1, <4>2
        <5> QED
          BY <2>6, <5>1, <5>2
    <3> QED
      BY <2>7, <3>1, <3>2
  <2>9. Traced'
    BY <1>1, <2>8 DEF ReplyInv, Traced
  <2>10. Sessions'
    BY <1>1, <2>1, <2>2 DEF ReplyInv, Sessions
  <2> QED
    BY <1>1, <2>9, <2>10, LinkChanges
<1>4. CASE Ignore
  <2>1. inbox # <<>> /\ UNCHANGED <<link, air>>
    BY <1>4 DEF Ignore
  <2>2. Traced' /\ Sessions'
    BY <1>1, <2>1 DEF ReplyInv, Traced, Sessions
  <2> QED
    BY <1>1, <2>2, LinkChanges
<1>5. CASE AtNoise
  <2>1. UNCHANGED <<link, inbox>> /\ air' = Append(air, AtNotice) /\ AtNotice \in Seq(Unit)
    BY <1>5 DEF AtNoise, AtNotice, Unit
  <2>2. \A i \in 1..Len(air') : air'[i] = AtNotice \/ (i \in 1..Len(air) /\ air'[i] = air[i])
    BY <1>2, <2>1, AppendProperties
  <2>3. Traced' /\ Sessions'
    BY <1>1, <2>1, <2>2 DEF ReplyInv, Traced, Sessions
  <2> QED
    BY <1>1, <2>3, LinkChanges
<1>6. CASE LinkDrops
  <2>1. /\ air' = <<>> /\ inbox' = <<>> /\ link'.step = link.step
        /\ link'.session = "none" <=> link.session = "none"
    BY <1>6 DEF LinkDrops, LinkDown, TypeInv, TypeOK, Link
  <2>2. Traced' /\ Sessions'
    BY <1>1, <2>1 DEF ReplyInv, Traced, Sessions
  <2> QED
    BY <1>1, <2>2, LinkChanges
<1> QED
  BY <1>3, <1>4, <1>5, <1>6 DEF Environment

\* Every step keeps ReplyInv.
LEMMA ReplyNext ==
  ASSUME TypeInv, LockInv, ReplyInv, [Next]_vars
  PROVE  ReplyInv'
<1>1. ASSUME NEW c \in Callers, Start(c) \/ Timeout(c) \/ Resume(c)
      PROVE  ReplyInv'
  BY <1>1, AttemptAnswers, RetryAnswers, ResumeAnswers DEF Start, Timeout
<1>2. CASE UNCHANGED vars
  BY <1>2, RepliesUntouched DEF vars, callVars, notifyVars, deviceVars
<1> QED
  BY <1>1, <1>2, QueueAnswers, DeliverAnswers, OwnerAnswers, EnvironmentAnswers DEF Next

\* Nothing is on its way at first.
LEMMA InitReplies == Init => ReplyInv
BY DEF Init, ReplyInv, Traced, Sessions, Ready, Answered, KnownIn, Failed

\* On a plain link a register read or write is answered by a whole response of the
\* length it waits for, for any commands and lengths (client.py:132-160).
THEOREM ClientPlainReadsFit == Spec => []PlainReadsFit
<1>1. Init => ReplyInv
  BY InitReplies
<1>2. IInv /\ ReplyInv /\ [Next]_vars => ReplyInv'
  BY ReplyNext DEF IInv
<1>3. ReplyInv => PlainReadsFit
  BY DEF ReplyInv, Answered, Fitting, PlainReadsFit
<1> QED
  BY InitInv, NextInv, <1>1, <1>2, <1>3, PTL DEF Spec

-----------------------------------------------------------------------------
(* The client implements the request channel.                              *)

\* How the call of c ended, as the channel sees it.
Ending(c) ==
  [kind |-> outcome[c].kind,
   answers |-> IF outcome[c].kind = "ok" THEN log[outcome[c].req].cmd ELSE "none"]

Given == [c \in Callers |-> Ending(c)]

\* A step that ends nobody's call leaves the channel's endings.
LEMMA GivenKept ==
  ASSUME Answered, LogKept, UNCHANGED outcome
  PROVE  Given' = Given
<1>1. \A c \in Callers : Ending(c)' = Ending(c)
  BY DEF Answered, LogKept, Ending
<1> QED
  BY <1>1 DEF Given

\* One that ends the call of c changes its ending only.
LEMMA GivenTo ==
  ASSUME TypeInv, NEW c \in Callers, NEW result \in Outcome, UNCHANGED log,
         outcome' = [outcome EXCEPT ![c] = result], NEW e,
         e = [kind |-> result.kind,
              answers |-> IF result.kind = "ok" THEN log[result.req].cmd ELSE "none"]
  PROVE  Given' = [Given EXCEPT ![c] = e]
<1>1. outcome'[c] = result /\ \A d \in Callers : d # c => outcome'[d] = outcome[d]
  BY DEF TypeInv, TypeOK
<1>2. Ending(c)' = e /\ \A d \in Callers : d # c => Ending(d)' = Ending(d)
  BY <1>1 DEF Ending
<1> QED
  BY <1>2 DEF Given

\* What an ended call may be given: a failure, or a reply that fits.
LEMMA EndingAllowed ==
  ASSUME TypeInv, NEW c \in Callers, cmd[c] \in Commands, NEW result \in Outcome, result.kind # "none",
         result.kind = "ok" => result.req \in 1..Len(log) /\ Fitting(log[result.req].cmd, cmd[c])
  PROVE  [kind |-> result.kind,
          answers |-> IF result.kind = "ok" THEN log[result.req].cmd ELSE "none"]
            \in Channel!Endings(cmd[c])
<1>1. CASE result.kind = "ok"
  <2> DEFINE p == log[result.req].cmd
  <2>1. p \in Commands
    BY <1>1, CommandsLogged DEF TypeInv
  <2>2. Fitting(p, cmd[c])
    BY <1>1
  <2> HIDE DEF p
  <2>3. \/ p \in Tlv /\ cmd[c] \in Tlv
        \/ \E e \in BOOLEAN : Expect[e][p] <= Expect[e][cmd[c]]
    <3>1. CASE p \in Tlv /\ cmd[c] \in Tlv
      BY <3>1
    <3>2. CASE Expect[TRUE][p] <= Expect[TRUE][cmd[c]]
      BY <3>2, Zenon
    <3>3. CASE Expect[FALSE][p] = Expect[FALSE][cmd[c]]
      <4>1. FALSE \in BOOLEAN
        BY Zenon
      <4>2. Expect[FALSE] \in [Commands -> Nat \ {0}]
        BY <4>1, ClientAssumption, Zenon
      <4> DEFINE f == Expect[FALSE]
      <4> HIDE DEF f
      <4>3. f[cmd[c]] \in Nat
        BY <4>2 DEF f
      <4>4. f[p] = f[cmd[c]]
        BY <3>3, Zenon DEF f
      <4>5. f[p] <= f[cmd[c]]
        BY <4>3, <4>4
      <4> QED
        BY <4>1, <4>5, Zenon DEF f
    <3> QED
      BY <2>2, <3>1, <3>2, <3>3 DEF Fitting
  <2>4. <<p, cmd[c]>> \in
          {q \in Commands \X Commands :
             \/ q[1] \in Tlv /\ q[2] \in Tlv
             \/ \E e \in BOOLEAN : Expect[e][q[1]] <= Expect[e][q[2]]}
    BY <2>1, <2>3
  <2>5. [kind |-> "ok", answers |-> p] \in Channel!Endings(cmd[c])
    BY <2>1, <2>4 DEF Channel!Endings
  <2> QED
    BY <1>1, <2>5 DEF p
<1>2. CASE result.kind # "ok"
  <2>1. result.kind \in {"link", "badconn", "modbus", "cancelled", "crash"}
    BY <1>2 DEF Outcome
  <2> QED
    BY <1>2, <2>1 DEF Channel!Endings, Channel!Failures
<1> QED
  BY <1>1, <1>2

\* The end of the holder's call is the channel serving the head of its line.
LEMMA EndServes ==
  ASSUME TypeInv, LockInv, ReplyInv, NEW c \in Callers, Holds(c), NEW result \in Outcome,
         End(c, result), UNCHANGED <<cmd, log>>, result.kind # "none",
         result.kind = "ok" => result.req \in 1..Len(log) /\ Fitting(log[result.req].cmd, cmd[c])
  PROVE  Channel!Serve
<1> DEFINE e == [kind |-> result.kind,
                 answers |-> IF result.kind = "ok" THEN log[result.req].cmd ELSE "none"]
<1>1. queue # <<>> /\ Head(queue) = c /\ cmd[c] \in Commands
  BY HolderAt DEF Holds, TypeInv, Grounded
<1>2. queue' = Tail(queue)
  BY DEF End
<1>3. e \in Channel!Endings(cmd[c])
  BY <1>1, EndingAllowed
<1>4. Given' = [Given EXCEPT ![c] = e]
  BY GivenTo DEF End
<1> HIDE DEF e
<1>5. \E x \in Channel!Endings(cmd[Head(queue)]) : Given' = [Given EXCEPT ![Head(queue)] = x]
  BY <1>1, <1>3, <1>4
<1> QED
  BY <1>1, <1>2, <1>5 DEF Channel!Serve, Given, Ending

ChannelStep == Channel!Next \/ UNCHANGED <<queue, cmd, Given>>

\* A step that moves neither the line nor an ending is none of the channel's.
LEMMA ChannelStutters ==
  ASSUME Answered, LogKept, UNCHANGED <<queue, cmd, outcome>>
  PROVE  ChannelStep
BY GivenKept DEF ChannelStep

\* A write is no step of the channel, unless it fails.
LEMMA AttemptOfChannel ==
  ASSUME TypeInv, LockInv, ReplyInv, NEW c \in Callers, Holds(c), NEW n, Attempt(c, n)
  PROVE  ChannelStep
<1>1. CASE link.up
  <2>1. /\ UNCHANGED <<queue, cmd, outcome, encrypted>>
        /\ log' = Append(log, [call |-> call[c], cmd |-> cmd[c]])
    BY <1>1 DEF Attempt
  <2>2. LogKept
    BY <2>1, AppendKept DEF TypeInv
  <2> QED
    BY <2>1, <2>2, ChannelStutters DEF ReplyInv
<1>2. CASE ~link.up
  <2>1. End(c, Failed("link")) /\ UNCHANGED <<cmd, log>>
    BY <1>2 DEF Attempt
  <2>2. Failed("link") \in Outcome /\ Failed("link").kind = "link"
    BY DEF Failed, Outcome
  <2> QED
    BY <2>1, <2>2, EndServes DEF ChannelStep, Channel!Next
<1> QED
  BY <1>1, <1>2

\* The end of a call serves it.
LEMMA EndOfChannel ==
  ASSUME TypeInv, LockInv, ReplyInv, NEW c \in Callers, Holds(c), NEW result \in Outcome,
         EndHere(c, result), result.kind # "none",
         result.kind = "ok" => result.req \in 1..Len(log) /\ Fitting(log[result.req].cmd, cmd[c])
  PROVE  ChannelStep
<1>1. End(c, result) /\ UNCHANGED <<cmd, log>>
  BY DEF EndHere, deviceVars
<1> QED
  BY <1>1, EndServes DEF ChannelStep, Channel!Next

\* A call that is made takes the last place of the line.
LEMMA ExecuteOfChannel ==
  ASSUME TypeInv, LockInv, ReplyInv, NEW c \in Callers, NEW r \in Commands, Execute(c, r)
  PROVE  ChannelStep
<1>1. /\ queue' = Append(queue, c) /\ cmd' = [cmd EXCEPT ![c] = r] /\ UNCHANGED log
      /\ outcome' = [outcome EXCEPT ![c] = Failed("none")] /\ phase[c] = "idle"
  BY DEF Execute, deviceVars
<1>2. ~Channel!InLine(c)
  BY <1>1 DEF Channel!InLine, Channel!Contains, LockInv
<1>3. Failed("none") \in Outcome /\ Failed("none").kind = "none"
  BY DEF Failed, Outcome
<1>4. Given' = [Given EXCEPT ![c] = [kind |-> "none", answers |-> "none"]]
  BY <1>1, <1>3, GivenTo
<1>5. Channel!Submit(c, r)
  BY <1>1, <1>2, <1>4 DEF Channel!Submit, Channel!Unfinished, Given, Ending
<1> QED
  BY <1>5 DEF ChannelStep, Channel!Next

\* A task that is cancelled leaves its place.
LEMMA CancelOfChannel ==
  ASSUME TypeInv, LockInv, ReplyInv, NEW i \in 1..Len(queue), Cancel(i)
  PROVE  ChannelStep
<1>1. queue[i] \in Callers
  BY ElementOfSeq DEF TypeInv, TypeOK
<1>2. /\ queue' = RemoveAt(queue, i) /\ UNCHANGED <<cmd, log>>
      /\ outcome' = [outcome EXCEPT ![queue[i]] = Failed("cancelled")]
  BY DEF Cancel, deviceVars
<1>3. Failed("cancelled") \in Outcome /\ Failed("cancelled").kind = "cancelled"
  BY DEF Failed, Outcome
<1>4. Given' = [Given EXCEPT ![queue[i]] = [kind |-> "cancelled", answers |-> "none"]]
  BY <1>1, <1>2, <1>3, GivenTo
<1>5. Channel!Withdraw(i)
  BY <1>2, <1>4 DEF Channel!Withdraw, Channel!RemoveAt, RemoveAt, Given, Ending
<1> QED
  BY <1>5 DEF ChannelStep, Channel!Next

\* What wakes a caller: its future.
LEMMA ResumeOfChannel ==
  ASSUME TypeInv, LockInv, ReplyInv, NEW c \in Callers, Start(c) \/ Timeout(c) \/ Resume(c)
  PROVE  ChannelStep
<1>1. Holds(c)
  BY DEF Start, Timeout, Resume, LockInv, OneInFlight
<1>2. \A kind \in {"badconn", "cancelled", "crash", "modbus"} :
        Failed(kind) \in Outcome /\ Failed(kind).kind = kind
  BY DEF Failed, Outcome
<1>3. CASE Start(c)
  BY <1>1, <1>3, AttemptOfChannel DEF Start
<1>4. CASE \E kind \in {"badconn", "cancelled", "crash"} : EndHere(c, Failed(kind))
  BY <1>1, <1>2, <1>4, EndOfChannel
<1>5. CASE Retry(c)
  BY <1>1, <1>4, <1>5, AttemptOfChannel DEF Retry, RetryUpTo
<1>6. CASE /\ future.st = "result" /\ phase[c] = "sent" /\ EndHere(c, Accepted(future.raw[1]))
           /\ link.session = "none" \/ "valid" \in Decoded(future.raw)
  <2>1. future.raw[1] \in Unit
    <3>1. future.raw \in Seq(Unit) /\ future.raw # <<>>
      BY <1>6 DEF TypeInv, TypeOK, Future, Grounded
    <3> QED
      BY <3>1, EmptySeq, ElementOfSeq
  <2>2. Accepted(future.raw[1]) \in Outcome /\ Accepted(future.raw[1]).kind # "none"
    BY <1>2, <2>1 DEF Accepted, Unit, Outcome
  <2>3. Accepted(future.raw[1]).kind = "ok" =>
          /\ Accepted(future.raw[1]).req \in 1..Len(log)
          /\ Fitting(log[Accepted(future.raw[1]).req].cmd, cmd[c])
    BY <1>6, AcceptedFits
  <2> QED
    BY <1>1, <1>6, <2>2, <2>3, EndOfChannel
<1>7. CASE Resume(c)
  BY <1>4, <1>5, <1>6, <1>7 DEF Resume
<1> QED
  BY <1>3, <1>5, <1>7 DEF Timeout

\* Every step is one of the channel, or none.
LEMMA ChannelNext ==
  ASSUME TypeInv, LockInv, ReplyInv, [Next]_vars
  PROVE  ChannelStep
<1>1. CASE Deliver \/ OwnerSteps \/ Environment \/ UNCHANGED vars
  <2>1. UNCHANGED <<queue, cmd, outcome, log, encrypted>>
    BY <1>1 DEF Deliver, OwnerSteps, ConnectStart, ConnectOpened, ConnectSubscribed, HandshakeDone,
                ConnectFails, ConnectStep, Disconnect, Disconnected, Environment, Answer, Ignore,
                AtNoise, LinkDrops, vars, callVars, deviceVars
  <2>2. LogKept
    BY <2>1 DEF LogKept
  <2> QED
    BY <2>1, <2>2, ChannelStutters DEF ReplyInv
<1> QED
  BY <1>1, ExecuteOfChannel, CancelOfChannel, ResumeOfChannel DEF Next

\* execute, with its retries, futures and buffers, keeps the promise of the request
\* channel to the poll loop and the bus, whatever the device and the link do.
THEOREM ClientImplementsChannel == Spec => ChannelSpec
<1>1. Init => Channel!Init
  BY DEF Init, Channel!Init, Channel!Unfinished, Failed
<1>2. IInv /\ ReplyInv /\ [Next]_vars => [Channel!Next]_<<queue, cmd, Given>>
  BY ChannelNext DEF IInv, ChannelStep
<1>3. IInv /\ ReplyInv /\ [Next]_vars => ReplyInv'
  BY ReplyNext DEF IInv
<1>4. Init => ReplyInv
  BY InitReplies
<1> QED
  BY InitInv, NextInv, <1>1, <1>2, <1>3, <1>4, PTL DEF Spec, ChannelSpec, Channel!Spec, Given, Ending

-----------------------------------------------------------------------------
(* Whose reply a call returns, where replies come in time.                 *)

\* The device answers within RESPONSE_TIMEOUT or not at all, no task is cancelled, the
\* module sends nothing on its own, and no reply is shorter than an exception frame.
Prompt ==
  /\ Faults \cap {"late", "cancel", "at"} = {}
  /\ \A e \in BOOLEAN : \A r \in Commands : ExceptionUnits <= Expect[e][r]

\* Notifications come and requests stay only on a link that is up, and a session is
\* fresh only between two connects.
Connected ==
  /\ air # <<>> => link.sub
  /\ link.sub \/ inbox # <<>> => link.up
  /\ link.step = "closing" => ~link.sub
  /\ link.session = "fresh" => link.up /\ link.step \in {"idle", "closing"}

\* At most two pieces a are on their way, and with what was gathered in b they make n.
Fills(a, b, n) ==
  /\ Len(a) <= 2 /\ \A i \in 1..Len(a) : a[i] # <<>>
  /\ Len(a) = 1 => Len(b) + Len(a[1]) <= n
  /\ Len(a) = 2 => Len(b) + Len(a[1]) + Len(a[2]) <= n

OnTheWay == inbox # <<>> \/ air # <<>>

\* But on a link that is being closed, what is on its way is the latest request or its
\* reply, and the caller still waits for it.
Flight ==
  /\ link.step # "closing" /\ OnTheWay =>
       /\ future.st = "pending" /\ \E c \in Callers : phase[c] = "sent"
       /\ encrypted => link.session = "fresh"
  /\ link.step # "closing" /\ inbox # <<>> => inbox = <<Len(log)>> /\ air = <<>> /\ buffer = <<>>
  /\ Fills(air, buffer, Expected)

Of(s, w) == \A j \in 1..Len(s) : s[j].req = w

\* All that was gathered is of the latest request, which is that of the call in flight.
Latest ==
  /\ Of(buffer, Len(log)) /\ \A i \in 1..Len(air) : Of(air[i], Len(log))
  /\ future.st = "result" => future.raw[1].req = Len(log)
  /\ \A c \in Callers : phase[c] = "sent" =>
       log # <<>> /\ log[Len(log)].call = call[c] /\ log[Len(log)].cmd = cmd[c]

PromptInv == Connected /\ Flight /\ Latest /\ OwnReply

\* Nothing is on its way, or it will be thrown away.
Clear == link.step = "closing" \/ ~OnTheWay

\* Nothing needs no room, and one piece its own.
LEMMA NoneFills ==
  ASSUME NEW b, NEW n
  PROVE  Fills(<<>>, b, n)
<1>1. Len(<<>>) = 0
  OBVIOUS
<1>2. \A i \in 1..0 : FALSE
  OBVIOUS
<1> QED
  BY <1>1, <1>2 DEF Fills

LEMMA OneFills ==
  ASSUME NEW a, Len(a) = 1, a[1] # <<>>, NEW b, NEW n, Len(b) + Len(a[1]) <= n
  PROVE  Fills(a, b, n)
<1>1. \A i \in 1..1 : i = 1
  OBVIOUS
<1>2. \A i \in 1..Len(a) : a[i] # <<>>
  BY <1>1
<1> QED
  BY <1>2 DEF Fills

\* Delivering a piece leaves room for the other; once all there is room for has come,
\* there is no other.
LEMMA TailFills ==
  ASSUME NEW S, NEW a \in Seq(S), a # <<>>, NEW b, NEW n \in Nat, Fills(a, b, n), Len(b) \in Nat,
         \A i \in 1..Len(a) : Len(a[i]) \in Nat /\ (Len(a[i]) = 0 => a[i] = <<>>),
         Len(b \o Head(a)) = Len(b) + Len(Head(a))
  PROVE  /\ Fills(Tail(a), b, n) /\ Fills(Tail(a), b \o Head(a), n)
         /\ Len(b \o Head(a)) >= n => Tail(a) = <<>>
<1>1. PICK m \in 1..2 : m = Len(a)
  <2>1. PICK m \in Nat : m = Len(a)
    OBVIOUS
  <2>2. m # 0 /\ m <= 2
    BY <2>1, EmptySeq DEF Fills
  <2> QED
    BY <2>1, <2>2
<1>2. /\ Head(a) = a[1] /\ Tail(a) \in Seq(S)
      /\ \A i \in 1..(m - 1) : Tail(a)[i] = a[i + 1]
  BY <1>1, HeadTailProperties
<1>3. PICK t \in Nat : t = Len(Tail(a)) /\ t = m - 1
  BY <1>1, HeadTailProperties
<1>4. PICK k \in Nat, l \in Nat : k = Len(a[1]) /\ l = Len(b) /\ Len(b \o Head(a)) = l + k
  BY <1>1, <1>2
<1>5. CASE m = 1
  <2>1. t = 0
    BY <1>3, <1>5
  <2>2. Tail(a) = <<>>
    BY <1>2, <1>3, <2>1, EmptySeq
  <2> QED
    BY <2>2, NoneFills
<1>6. CASE m = 2
  <2>1. t = 1 /\ Tail(a)[1] = a[2] /\ Len(Tail(a)) = 1
    BY <1>2, <1>3, <1>6
  <2>2. Len(a[2]) \in Nat /\ Len(a[2]) # 0 /\ a[2] # <<>> /\ l + k + Len(a[2]) <= n
    BY <1>1, <1>4, <1>6 DEF Fills
  <2>3. PICK j \in Nat \ {0} : j = Len(a[2])
    BY <2>2
  <2>4. l + k + j <= n
    BY <2>2, <2>3
  <2>5. l + j <= n /\ (l + k) + j <= n /\ ~(l + k >= n)
    BY <2>4
  <2>6. Fills(Tail(a), b, n)
    BY <1>4, <2>1, <2>2, <2>3, <2>5, OneFills
  <2>7. Fills(Tail(a), b \o Head(a), n)
    BY <1>4, <2>1, <2>2, <2>3, <2>5, OneFills
  <2> QED
    BY <1>4, <2>5, <2>6, <2>7
<1> QED
  BY <1>1, <1>5, <1>6

\* A reply that has room has room in pieces.
LEMMA PiecesFill ==
  ASSUME NEW reply \in Seq(Unit), NEW n \in Nat, Len(reply) <= n, NEW cut \in 1..Len(reply)
  PROVE  Fills(InPieces(reply, cut), <<>>, n)
<1>1. Len(reply) \in Nat \ {0}
  OBVIOUS
<1>2. CASE cut = Len(reply)
  <2>1. InPieces(reply, cut) = <<reply>> /\ reply # <<>>
    BY <1>1, <1>2, EmptySeq DEF InPieces
  <2>2. \A i \in 1..Len(<<reply>>) : <<reply>>[i] = reply
    OBVIOUS
  <2> QED
    BY <1>1, <2>1, <2>2 DEF Fills
<1>3. CASE cut # Len(reply)
  <2> DEFINE p == SubSeq(reply, 1, cut)
             q == SubSeq(reply, cut + 1, Len(reply))
  <2>1. InPieces(reply, cut) = <<p, q>>
    BY <1>3 DEF InPieces
  <2>2. /\ p \in Seq(Unit) /\ Len(p) = cut /\ q \in Seq(Unit) /\ Len(q) = Len(reply) - cut
    BY <1>1
  <2> HIDE DEF p, q
  <2>3. p # <<>> /\ q # <<>> /\ Len(p) + Len(q) = Len(reply)
    BY <1>1, <1>3, <2>2, EmptySeq
  <2>4. \A i \in 1..Len(<<p, q>>) : <<p, q>>[i] \in {p, q}
    OBVIOUS
  <2> QED
    BY <1>1, <2>1, <2>2, <2>3, <2>4 DEF Fills
<1> QED
  BY <1>2, <1>3
\* Of the callers only the holder of the lock is in flight.
LEMMA Alone ==
  ASSUME LockInv, NEW c \in Callers, NEW d \in Callers, phase[d] = "sent", Holds(c) \/ phase[c] = "sent"
  PROVE  d = c
BY DEF LockInv, OneInFlight, Holds

\* An attempt written when nothing is on its way.
LEMMA AttemptPrompt ==
  ASSUME TypeInv, LockInv, ReplyInv, PromptInv, Clear, NEW c \in Callers, Holds(c), NEW n, Attempt(c, n)
  PROVE  PromptInv'
<1>1. /\ UNCHANGED <<cmd, call, link, encrypted, air>> /\ buffer' = <<>> /\ future'.st = "pending"
  BY DEF Attempt
<1>2. air = <<>> /\ (link.step # "closing" => inbox = <<>>)
  BY DEF Clear, OnTheWay, PromptInv, Connected
<1>3. Fills(air', buffer', Expected')
  BY <1>1, <1>2, NoneFills
<1>4. ~(future'.st = "result") /\ Of(buffer', Len(log')) /\ \A i \in 1..Len(air') : Of(air'[i], Len(log'))
  BY <1>1, <1>2 DEF Of
<1>5. CASE link.up
  <2> DEFINE e == [call |-> call[c], cmd |-> cmd[c]]
  <2>1. /\ log' = Append(log, e) /\ phase' = [phase EXCEPT ![c] = "sent"] /\ outcome' = outcome
        /\ inbox' = IF encrypted => link.session = "fresh" THEN Append(inbox, Len(log) + 1) ELSE inbox
    BY <1>5 DEF Attempt
  <2>2. cmd[c] \in Commands /\ call[c] \in Nat
    BY HolderAt DEF TypeInv, TypeOK, Grounded
  <2>3. e \in Request /\ e.call = call[c] /\ e.cmd = cmd[c] /\ log \in Seq(Request) /\ Len(log) \in Nat
    BY <2>2 DEF Request, TypeInv, TypeOK
  <2> HIDE DEF e
  <2>4. /\ Len(log') = Len(log) + 1 /\ log'[Len(log')] = e /\ log' # <<>>
        /\ \A w \in 1..Len(log) : log'[w] = log[w]
    BY <2>1, <2>3, AppendProperties
  <2>5. phase'[c] = "sent" /\ \A d \in Callers : phase'[d] = "sent" => d = c
    BY <2>1, Alone DEF TypeInv, TypeOK
  <2>6. Connected'
    BY <1>1, <1>2, <1>5 DEF PromptInv, Connected
  <2>7. link.step # "closing" /\ inbox' # <<>> => inbox' = <<Len(log')>> /\ (encrypted => link.session = "fresh")
    <3>1. ASSUME link.step # "closing"
          PROVE  inbox' = IF encrypted => link.session = "fresh" THEN <<Len(log')>> ELSE <<>>
      <4>1. inbox = <<>>
        BY <1>2, <3>1
      <4>2. \A x : Append(<<>>, x) = <<x>>
        OBVIOUS
      <4> QED
        BY <2>1, <2>4, <4>1, <4>2
    <3> QED
      BY <3>1
  <2>8. Flight'
    BY <1>1, <1>2, <1>3, <2>5, <2>7 DEF Flight, OnTheWay
  <2>9. Latest'
    BY <1>1, <1>4, <2>3, <2>4, <2>5 DEF Latest
  <2>10. OwnReply'
    BY <1>1, <2>1, <2>4 DEF PromptInv, OwnReply, ReplyInv, Answered
  <2> QED
    BY <2>6, <2>8, <2>9, <2>10 DEF PromptInv
<1>6. CASE ~link.up
  <2>1. /\ UNCHANGED <<log, inbox>> /\ phase' = [phase EXCEPT ![c] = "idle"]
        /\ outcome' = [outcome EXCEPT ![c] = Failed("link")]
    BY <1>6 DEF Attempt, End
  <2>2. inbox = <<>> /\ air = <<>>
    BY <1>2, <1>6 DEF PromptInv, Connected
  <2>3. \A d \in Callers : phase'[d] = "sent" => phase[d] = "sent"
    BY <2>1 DEF TypeInv, TypeOK
  <2>4. Connected' /\ Flight'
    BY <1>1, <1>3, <2>1, <2>2 DEF PromptInv, Connected, Flight, OnTheWay
  <2>5. Latest'
    BY <1>1, <1>4, <2>1, <2>3 DEF PromptInv, Latest
  <2>6. OwnReply'
    BY <1>1, <2>1 DEF PromptInv, OwnReply, Failed, TypeInv, TypeOK
  <2> QED
    BY <2>4, <2>5, <2>6 DEF PromptInv
<1> QED
  BY <1>5, <1>6

\* A call that ends when nothing is on its way.
LEMMA EndPrompt ==
  ASSUME TypeInv, LockInv, PromptInv, Clear, NEW c \in Callers, NEW result, EndHere(c, result),
         result.kind = "ok" => log[result.req].call = call[c]
  PROVE  PromptInv'
<1>1. /\ UNCHANGED <<cmd, call, current, future, buffer, link, encrypted, air, inbox, log>>
      /\ phase' = [phase EXCEPT ![c] = "idle"] /\ outcome' = [outcome EXCEPT ![c] = result]
  BY DEF EndHere, End, notifyVars, deviceVars
<1>2. \A d \in Callers : phase'[d] = "sent" => phase[d] = "sent"
  BY <1>1 DEF TypeInv, TypeOK
<1>3. Connected' /\ Latest'
  BY <1>1, <1>2 DEF PromptInv, Connected, Latest, Of
<1>4. Flight'
  BY <1>1 DEF PromptInv, Clear, OnTheWay, Flight, Expected, Fills
<1>5. OwnReply'
  BY <1>1 DEF PromptInv, OwnReply, TypeInv, TypeOK
<1> QED
  BY <1>3, <1>4, <1>5 DEF PromptInv

LEMMA RetryPrompt ==
  ASSUME TypeInv, LockInv, ReplyInv, PromptInv, Clear, NEW c \in Callers, Holds(c), Retry(c)
  PROVE  PromptInv'
<1>1. CASE EndHere(c, Failed("badconn"))
  BY <1>1, EndPrompt DEF Failed
<1> QED
  BY <1>1, AttemptPrompt DEF Retry, RetryUpTo

\* Whatever a caller does, nothing is on its way when it does it.
LEMMA CallerPrompt ==
  ASSUME Prompt, TypeInv, LockInv, ReplyInv, PromptInv, NEW c \in Callers, Start(c) \/ Timeout(c) \/ Resume(c)
  PROVE  PromptInv'
<1>1. Holds(c)
  BY DEF Start, Timeout, Resume, LockInv, OneInFlight
<1>2. CASE Start(c)
  <2>1. \A d \in Callers : phase[d] # "sent"
    BY <1>1, <1>2, Alone DEF Start
  <2>2. Clear
    BY <2>1 DEF Clear, PromptInv, Flight
  <2> QED
    BY <1>1, <1>2, <2>2, AttemptPrompt DEF Start
<1>3. CASE Timeout(c)
  <2>1. phase[c] = "sent" /\ ~Outstanding(c) /\ Retry(c)
    BY <1>3 DEF Timeout, Prompt
  <2>2. log # <<>> /\ log[Len(log)].call = call[c] /\ log \in Seq(Request)
    BY <2>1 DEF PromptInv, Latest, TypeInv, TypeOK
  <2>3. Clear
    <3>1. CASE inbox # <<>> /\ link.step # "closing"
      <4>1. inbox = <<Len(log)>>
        BY <3>1 DEF PromptInv, Flight
      <4>2. 1 \in 1..Len(inbox) /\ inbox[1] = Len(log)
        BY <4>1
      <4> QED
        BY <2>1, <2>2, <4>2 DEF Outstanding
    <3>2. CASE air # <<>>
      <4>1. air \in Seq(Seq(Unit)) /\ Len(log) \in Nat \ {0}
        BY <2>2, EmptySeq DEF TypeInv, TypeOK
      <4>2. 1 \in 1..Len(air)
        BY <3>2, <4>1, EmptySeq
      <4>3. air[1] # <<>> /\ air[1] \in Seq(Unit) /\ Of(air[1], Len(log))
        BY <4>1, <4>2, ElementOfSeq DEF PromptInv, Flight, Latest, Fills
      <4>4. air[1][1].req = Len(log)
        <5>1. 1 \in 1..Len(air[1])
          BY <4>3, EmptySeq
        <5> QED
          BY <4>3, <5>1 DEF Of
      <4> QED
        BY <2>1, <2>2, <4>1, <4>2, <4>4 DEF Outstanding
    <3> QED
      BY <3>1, <3>2 DEF Clear, OnTheWay
  <2> QED
    BY <1>1, <2>1, <2>3, RetryPrompt
<1>4. CASE Resume(c)
  <2>1. phase[c] = "sent" /\ future.st # "pending"
    BY <1>4 DEF Resume
  <2>2. Clear
    BY <2>1 DEF Clear, PromptInv, Flight
  <2>3. CASE Retry(c)
    BY <1>1, <2>2, <2>3, RetryPrompt
  <2>4. CASE \E kind \in {"badconn", "cancelled", "crash"} : EndHere(c, Failed(kind))
    BY <2>2, <2>4, EndPrompt DEF Failed
  <2>5. CASE future.st = "result" /\ EndHere(c, Accepted(future.raw[1]))
    <3>1. future.raw[1].req = Len(log) /\ log[Len(log)].call = call[c]
      BY <2>1, <2>5 DEF PromptInv, Latest
    <3>2. Accepted(future.raw[1]).kind = "ok" => log[Accepted(future.raw[1]).req].call = call[c]
      BY <3>1 DEF Accepted, Failed
    <3> QED
      BY <2>2, <2>5, <3>2, EndPrompt
  <2> QED
    BY <1>4, <2>3, <2>4, <2>5 DEF Resume
<1> QED
  BY <1>2, <1>3, <1>4
\* Of two runs of units of a request their concatenation and what begins it.
LEMMA OfGathered ==
  ASSUME NEW s \in Seq(Unit), NEW t \in Seq(Unit), NEW w, Of(s, w), Of(t, w), NEW n \in Nat \ {0}, n <= Len(s \o t)
  PROVE  Of(s \o t, w) /\ SubSeq(s \o t, 1, n)[1].req = w
<1>1. /\ s \o t \in Seq(Unit) /\ Len(s \o t) = Len(s) + Len(t)
      /\ \A i \in 1..(Len(s) + Len(t)) : (s \o t)[i] = IF i <= Len(s) THEN s[i] ELSE t[i - Len(s)]
  BY ConcatProperties
<1>2. \A i \in 1..Len(s \o t) : (s \o t)[i].req = w
  <2> TAKE i \in 1..Len(s \o t)
  <2>1. i <= Len(s) => (s \o t)[i].req = w
    BY <1>1 DEF Of
  <2>2. ~(i <= Len(s)) => i - Len(s) \in 1..Len(t)
    BY <1>1
  <2> QED
    BY <1>1, <2>1, <2>2 DEF Of
<1> DEFINE g == s \o t
<1>3. g \in Seq(Unit) /\ n <= Len(g) /\ \A i \in 1..Len(g) : g[i].req = w
  BY <1>1, <1>2
<1> HIDE DEF g
<1>4. 1 \in 1..Len(g) /\ SubSeq(g, 1, n)[1] = g[1]
  <2>1. 1 \in 1..Len(g)
    BY <1>3
  <2>2. \A k \in 1..n : g[k] \in Unit
    BY <1>3, ElementOfSeq
  <2> QED
    BY <1>3, <2>1, <2>2, SubSeqProperties
<1> QED
  BY <1>2, <1>3, <1>4 DEF g, Of

\* A notification: a piece of the reply the caller waits for.
LEMMA DeliverPrompt ==
  ASSUME Prompt, TypeInv, LockInv, ReplyInv, PromptInv, Deliver
  PROVE  PromptInv'
<1>1. /\ UNCHANGED <<phase, cmd, call, outcome, current, link, encrypted, inbox, log>>
      /\ link.sub /\ air # <<>> /\ air' = Tail(air) /\ air \in Seq(Seq(Unit)) /\ buffer \in Seq(Unit)
  BY DEF Deliver, callVars, TypeInv, TypeOK
<1>2. /\ link.step # "closing" /\ inbox = <<>> /\ future.st = "pending" /\ \E c \in Callers : phase[c] = "sent"
      /\ encrypted => link.session = "fresh"
  BY <1>1 DEF PromptInv, Connected, Flight, OnTheWay
<1>3. current \in Commands /\ Expected \in Nat \ {0} /\ Expected' = Expected
  BY <1>1, <1>2, ClientAssumption DEF Expected, ClientAssumption, TypeInv, Grounded
<1>4. /\ Len(air) \in Nat \ {0} /\ Head(air) = air[1] /\ air[1] \in Seq(Unit) /\ air[1] # <<>>
      /\ Len(air') = Len(air) - 1 /\ \A i \in 1..Len(air') : air'[i] = air[i + 1]
  <2>1. Len(air) \in Nat \ {0}
    BY <1>1, EmptySeq
  <2>2. 1 \in 1..Len(air)
    BY <2>1
  <2>3. air[1] # <<>> /\ air[1] \in Seq(Unit)
    BY <1>1, <2>2, ElementOfSeq DEF PromptInv, Flight, Fills
  <2> QED
    BY <1>1, <2>1, <2>3, HeadTailProperties
<1>5. Of(air[1], Len(log)) /\ Of(buffer, Len(log)) /\ \A i \in 1..Len(air') : Of(air'[i], Len(log'))
  <2>1. \A i \in 1..Len(air) : Of(air[i], Len(log))
    BY DEF PromptInv, Latest
  <2>2. 1 \in 1..Len(air) /\ \A i \in 1..Len(air') : i + 1 \in 1..Len(air)
    BY <1>4
  <2>3. Of(buffer, Len(log))
    BY DEF PromptInv, Latest
  <2> QED
    BY <1>1, <1>4, <2>1, <2>2, <2>3
<1>6. air[1] # AtNotice
  <2>1. Len(log) \in Nat \ {0}
    BY <1>2, EmptySeq DEF PromptInv, Latest, TypeInv, TypeOK
  <2>2. 1 \in 1..Len(air[1])
    BY <1>4, EmptySeq
  <2>3. AtNotice[1].req = 0
    BY DEF AtNotice
  <2> QED
    BY <1>5, <2>1, <2>2, <2>3 DEF Of
<1>7. /\ Fills(air', buffer, Expected) /\ Fills(air', Gathered, Expected)
      /\ Len(Gathered) >= Expected => air' = <<>>
      /\ Gathered \in Seq(Unit)
  <2> DEFINE S == Seq(Unit)
  <2>1. Len(buffer) \in Nat /\ air \in Seq(S)
    BY <1>1
  <2>2. \A i \in 1..Len(air) : Len(air[i]) \in Nat /\ (Len(air[i]) = 0 => air[i] = <<>>)
    <3> TAKE i \in 1..Len(air)
    <3>1. air[i] \in Seq(Unit)
      BY <1>1, ElementOfSeq
    <3> QED
      BY <3>1, EmptySeq
  <2>3. Gathered \in Seq(Unit) /\ Len(Gathered) = Len(buffer) + Len(Head(air))
    BY <1>1, <1>4, ConcatProperties DEF Gathered
  <2>4. Fills(air, buffer, Expected)
    BY DEF PromptInv, Flight
  <2> HIDE DEF S
  <2> QED
    BY <1>1, <1>3, <2>1, <2>2, <2>3, <2>4, TailFills DEF Gathered
<1>8. Connected' /\ OwnReply'
  BY <1>1 DEF PromptInv, Connected, OwnReply
<1>9. CASE ~Wanted
  <2>1. UNCHANGED <<future, buffer>>
    BY <1>9 DEF Deliver
  <2>2. Flight'
    BY <1>1, <1>2, <1>3, <1>7, <2>1 DEF Flight, OnTheWay
  <2>3. Latest'
    BY <1>1, <1>5, <2>1 DEF PromptInv, Latest
  <2> QED
    BY <1>8, <2>2, <2>3 DEF PromptInv
<1>10. CASE Wanted
  <2>1. buffer' = Gathered
    BY <1>4, <1>6, <1>10 DEF Deliver
  <2>2. \/ Len(Gathered) < Expected /\ future' = future
        \/ Len(Gathered) >= Expected /\ future' = [future EXCEPT !.st = "parse"]
        \/ Len(Gathered) >= Expected /\ future' = [st |-> "result", raw |-> SubSeq(Gathered, 1, Expected)]
    <3>1. Len(Gathered) < Expected \/ Len(Gathered) >= Expected
      BY <1>3, <1>7
    <3> QED
      BY <1>4, <1>6, <1>10, <3>1 DEF Deliver
  <2>3. Flight'
    <3>1. Fills(air', buffer', Expected')
      BY <1>3, <1>7, <2>1
    <3>2. future' = future \/ air' = <<>>
      BY <1>7, <2>2
    <3> QED
      BY <1>1, <1>2, <3>1, <3>2 DEF Flight, OnTheWay
  <2>4. Of(Gathered, Len(log)) /\ (Len(Gathered) >= Expected => SubSeq(Gathered, 1, Expected)[1].req = Len(log))
    <3>1. Len(Gathered) \in Nat \ {0}
      BY <1>1, <1>4, EmptySeq, ConcatProperties DEF Gathered
    <3>2. Of(Gathered, Len(log))
      BY <1>1, <1>4, <1>5, <3>1, OfGathered DEF Gathered
    <3>3. ASSUME Len(Gathered) >= Expected
          PROVE  SubSeq(Gathered, 1, Expected)[1].req = Len(log)
      <4>1. Expected <= Len(Gathered)
        BY <1>3, <3>1, <3>3
      <4> QED
        BY <1>1, <1>3, <1>4, <1>5, <4>1, OfGathered DEF Gathered
    <3> QED
      BY <3>2, <3>3
  <2>5. future'.st = "result" => future'.raw[1].req = Len(log)
    <3>1. future'.st = "result" => Len(Gathered) >= Expected /\ future'.raw = SubSeq(Gathered, 1, Expected)
      BY <1>2, <2>2 DEF TypeInv, TypeOK, Future
    <3> QED
      BY <2>4, <3>1
  <2>6. Latest'
    BY <1>1, <1>5, <2>1, <2>4, <2>5 DEF PromptInv, Latest
  <2> QED
    BY <1>8, <2>3, <2>6 DEF PromptInv
<1> QED
  BY <1>9, <1>10
\* The owner connects and disconnects, and throws away what was on its way.
LEMMA OwnerPrompt ==
  ASSUME Prompt, TypeInv, LockInv, ReplyInv, PromptInv, OwnerSteps
  PROVE  PromptInv'
<1>0. link \in Link
  BY DEF TypeInv, TypeOK
<1>1. UNCHANGED <<phase, cmd, call, outcome, current, buffer, encrypted, log>>
  BY DEF OwnerSteps, ConnectStart, ConnectOpened, ConnectSubscribed, HandshakeDone, ConnectFails,
         ConnectStep, Disconnect, Disconnected, callVars, notifyVars, deviceVars
<1>2. OwnReply'
  BY <1>1 DEF PromptInv, OwnReply
<1>3. CASE ConnectStart \/ ConnectOpened \/ ConnectSubscribed \/ ConnectFails
  <2>1. UNCHANGED <<future, air, inbox>> /\ link'.session = link.session
    BY <1>0, <1>3 DEF ConnectStart, ConnectOpened, ConnectSubscribed, ConnectFails, ConnectStep, notifyVars,
                      deviceVars, Link
  <2>2. link.session # "fresh"
    BY <1>3 DEF ConnectStart, ConnectOpened, ConnectSubscribed, ConnectFails, ConnectStep, PromptInv, Connected
  <2>3. /\ link.step # "closing" /\ link'.step # "closing"
        /\ link.up => link'.up
        /\ link'.sub => link'.up
        /\ link.sub => link'.sub
    BY <1>0, <1>3 DEF ConnectStart, ConnectOpened, ConnectSubscribed, ConnectFails, ConnectStep, OwnerFree,
                      PromptInv, Connected, Link
  <2>4. Connected'
    BY <2>1, <2>2, <2>3 DEF PromptInv, Connected
  <2>5. Expected' = Expected
    BY <1>1, <2>1 DEF Expected
  <2>6. Flight' /\ Latest'
    BY <1>1, <2>1, <2>3, <2>5 DEF PromptInv, Flight, OnTheWay, Latest
  <2> QED
    BY <1>2, <2>4, <2>6 DEF PromptInv
<1>4. CASE HandshakeDone
  <2>1. /\ UNCHANGED <<future, air, inbox>> /\ link.up /\ link.step = "handshaking"
        /\ link' = [link EXCEPT !.step = "idle", !.session = "fresh"]
    BY <1>4 DEF HandshakeDone, ConnectStep, notifyVars, deviceVars
  <2>2. air = <<>> /\ inbox = <<>>
    BY <2>1 DEF PromptInv, Connected, Flight, OnTheWay, ReplyInv, Sessions
  <2>3. Connected'
    BY <1>0, <2>1, <2>2 DEF PromptInv, Connected, Link
  <2>4. Flight' /\ Latest'
    BY <1>1, <2>1, <2>2, NoneFills DEF PromptInv, Flight, OnTheWay, Latest
  <2> QED
    BY <1>2, <2>3, <2>4 DEF PromptInv
<1>5. CASE Disconnect
  <2>1. /\ link' = [link EXCEPT !.sub = FALSE, !.step = IF link.up THEN "closing" ELSE "idle"]
        /\ link.step = "idle"
    BY <1>5 DEF Disconnect, OwnerFree
  <2>2. air' = <<>> /\ inbox' = inbox /\ (future' = future \/ future'.st = "cancelled")
    BY <1>5 DEF Disconnect, TypeInv, TypeOK, Future
  <2>3. Connected'
    BY <1>0, <2>1, <2>2 DEF PromptInv, Connected, Link
  <2>4. link'.step # "closing" => inbox' = <<>>
    BY <1>0, <2>1, <2>2 DEF PromptInv, Connected, Link
  <2>5. Flight'
    BY <2>2, <2>4, NoneFills DEF Flight, OnTheWay
  <2>6. Latest'
    BY <1>1, <2>2 DEF PromptInv, Latest
  <2> QED
    BY <1>2, <2>3, <2>5, <2>6 DEF PromptInv
<1>6. CASE Disconnected
  <2>1. /\ future' = future /\ air' = <<>> /\ inbox' = <<>>
        /\ link'.step = "idle" /\ ~link'.up /\ ~link'.sub /\ link'.session # "fresh"
    BY <1>6 DEF Disconnected, LinkDown, notifyVars
  <2>2. Connected' /\ Flight' /\ Latest'
    BY <1>1, <2>1, NoneFills DEF PromptInv, Connected, Flight, OnTheWay, Latest
  <2> QED
    BY <1>2, <2>2 DEF PromptInv
<1> QED
  BY <1>3, <1>4, <1>5, <1>6 DEF OwnerSteps

\* The reply to the latest request has the room its command leaves.
LEMMA ReplyFills ==
  ASSUME Prompt, TypeInv, LockInv, ReplyInv, PromptInv, inbox # <<>>, link.step # "closing", NEW kind \in Kinds,
         NEW cut \in 1..ReplyLen(Head(inbox), kind)
  PROVE  LET pieces == InPieces(Reply(Head(inbox), kind), cut)
         IN  Fills(pieces, buffer, Expected) /\ \A i \in 1..Len(pieces) : Of(pieces[i], Len(log))
<1> DEFINE w == Len(log)
<1>1. inbox = <<w>> /\ buffer = <<>> /\ Head(inbox) = w
  BY DEF PromptInv, Flight
<1>2. PICK c \in Callers : phase[c] = "sent"
  BY DEF PromptInv, Flight, OnTheWay
<1>3. log # <<>> /\ log[w].cmd = cmd[c] /\ current = cmd[c] /\ cmd[c] \in Commands /\ w \in 1..Len(log)
  <2>1. log # <<>> /\ log[w].cmd = cmd[c]
    BY <1>2 DEF PromptInv, Latest
  <2>2. w \in 1..Len(log)
    BY <2>1, EmptySeq DEF TypeInv, TypeOK
  <2> QED
    BY <1>2, <2>1, <2>2 DEF LockInv, OneInFlight, TypeInv, Grounded
<1> HIDE DEF w
<1>4. encrypted \in BOOLEAN /\ (link.session # "none") = encrypted
  <2>1. encrypted \in BOOLEAN
    BY DEF TypeInv, TypeOK
  <2>2. encrypted => link.session = "fresh"
    BY DEF PromptInv, Flight, OnTheWay
  <2>3. ~encrypted => link.session = "none"
    BY DEF ReplyInv, Sessions
  <2>4. (link.session # "none") <=> encrypted
    BY <2>2, <2>3
  <2> QED
    BY <2>1, <2>4, Zenon
<1>5. Expected = Expect[encrypted][cmd[c]]
  BY <1>3, <1>4, Zenon DEF Expected
<1>6. Expected \in Nat \ {0} /\ ReplyLen(w, kind) <= Expected
  <2> DEFINE n == Expect[encrypted][cmd[c]]
  <2>1. n \in Nat \ {0} /\ ExceptionUnits <= n
    <3>1. Expect[encrypted] \in [Commands -> Nat \ {0}]
      BY <1>4, ClientAssumption DEF ClientAssumption
    <3>2. ExceptionUnits <= n
      BY <1>3, <1>4, Zenon DEF Prompt
    <3> QED
      BY <1>3, <3>1, <3>2
  <2>2. ReplyLen(w, kind) = ExceptionUnits \/ ReplyLen(w, kind) = n
    BY <1>3 DEF ReplyLen
  <2> HIDE DEF n
  <2> QED
    BY <1>5, <2>1, <2>2 DEF n
<1>7. Reply(w, kind) \in Seq(Unit) /\ Len(Reply(w, kind)) = ReplyLen(w, kind) /\ ReplyLen(w, kind) \in Nat \ {0}
  BY <1>3, ReplyType DEF TypeInv
<1> DEFINE r == Reply(w, kind)
           pieces == InPieces(r, cut)
<1>8. Of(r, w)
  BY <1>7 DEF Reply, Of
<1> HIDE DEF r
<1>9. Fills(pieces, <<>>, Expected)
  BY <1>1, <1>6, <1>7, PiecesFill DEF r
<1>10. \A i \in 1..Len(pieces) : Of(pieces[i], w)
  <2>1. r \in Seq(Unit) /\ cut \in 1..Len(r)
    BY <1>1, <1>7 DEF r
  <2> DEFINE p == SubSeq(r, 1, cut)
             q == SubSeq(r, cut + 1, Len(r))
  <2>2. Of(p, w) /\ Of(q, w)
    BY <1>8, <2>1 DEF Of
  <2>3. pieces \in {<<r>>, <<p, q>>}
    BY DEF InPieces
  <2> HIDE DEF p, q
  <2>4. /\ \A i \in 1..Len(<<r>>) : <<r>>[i] = r
        /\ \A i \in 1..Len(<<p, q>>) : <<p, q>>[i] \in {p, q}
    OBVIOUS
  <2> HIDE DEF pieces
  <2> QED
    BY <1>8, <2>2, <2>3, <2>4
<1> QED
  BY <1>1, <1>9, <1>10 DEF w, r

\* The device and the link.
LEMMA EnvironmentPrompt ==
  ASSUME Prompt, TypeInv, LockInv, ReplyInv, PromptInv, Environment
  PROVE  PromptInv'
<1>1. UNCHANGED <<phase, cmd, call, outcome, current, future, buffer, encrypted, log>>
  BY DEF Environment, Answer, Ignore, AtNoise, LinkDrops, callVars, notifyVars
<1>2. OwnReply'
  BY <1>1 DEF PromptInv, OwnReply
<1>3. inbox # <<>> /\ link.step # "closing" => Tail(inbox) = <<>> /\ air = <<>> /\ buffer = <<>>
  <2>1. inbox # <<>> /\ link.step # "closing" => inbox = <<Len(log)>> /\ air = <<>> /\ buffer = <<>>
    BY DEF PromptInv, Flight
  <2>2. Tail(<<Len(log)>>) = <<>>
    OBVIOUS
  <2> QED
    BY <2>1, <2>2
<1>4. CASE inbox # <<>> /\ inbox' = Tail(inbox) /\ UNCHANGED <<link, air>>
  <2>1. inbox' # <<>> => link.step = "closing"
    BY <1>3, <1>4
  <2>2. Expected' = Expected
    BY <1>1, <1>4 DEF Expected
  <2>3. Connected' /\ Flight' /\ Latest'
    BY <1>1, <1>4, <2>1, <2>2 DEF PromptInv, Connected, Flight, OnTheWay, Latest
  <2> QED
    BY <1>2, <2>3 DEF PromptInv
<1>5. CASE Answer
  <2>1. inbox # <<>> /\ inbox' = Tail(inbox) /\ UNCHANGED link
    BY <1>5 DEF Answer
  <2>2. PICK kind \in Kinds : \E cut \in 1..ReplyLen(Head(inbox), kind) :
          air' = IF link.sub THEN air \o InPieces(Reply(Head(inbox), kind), cut) ELSE air
    BY <1>5 DEF Answer, Kinds
  <2>3. PICK cut \in 1..ReplyLen(Head(inbox), kind) :
          air' = IF link.sub THEN air \o InPieces(Reply(Head(inbox), kind), cut) ELSE air
    BY <2>2
  <2>4. CASE ~link.sub
    BY <1>4, <2>1, <2>3, <2>4
  <2>5. CASE link.sub
    <3> DEFINE pieces == InPieces(Reply(Head(inbox), kind), cut)
    <3>1. link.step # "closing" /\ Tail(inbox) = <<>> /\ air = <<>> /\ OnTheWay
      BY <1>3, <2>1, <2>5 DEF PromptInv, Connected, OnTheWay
    <3>2. Fills(pieces, buffer, Expected) /\ \A i \in 1..Len(pieces) : Of(pieces[i], Len(log))
      BY <2>1, <3>1, ReplyFills
    <3>3. pieces \in Seq(Seq(Unit))
      <4>1. Head(inbox) \in 1..Len(log)
        BY <2>1 DEF TypeInv, TypeOK, Grounded
      <4> QED
        BY <4>1, ReplyType, PiecesType DEF TypeInv
    <3> HIDE DEF pieces
    <3>4. air' = pieces
      BY <2>3, <2>5, <3>1, <3>3 DEF pieces
    <3>5. Expected' = Expected
      BY <1>1, <2>1 DEF Expected
    <3>6. Connected'
      BY <2>1, <2>5, <3>1 DEF PromptInv, Connected
    <3>7. Flight'
      BY <1>1, <2>1, <3>1, <3>2, <3>4, <3>5 DEF PromptInv, Flight, OnTheWay
    <3>8. Latest'
      BY <1>1, <3>2, <3>4 DEF PromptInv, Latest
    <3> QED
      BY <1>2, <3>6, <3>7, <3>8 DEF PromptInv
  <2> QED
    BY <2>4, <2>5
<1>6. CASE Ignore
  BY <1>4, <1>6 DEF Ignore
<1>7. CASE LinkDrops
  <2>1. /\ air' = <<>> /\ inbox' = <<>>
        /\ ~link'.up /\ ~link'.sub /\ link'.session # "fresh"
    BY <1>7 DEF LinkDrops, LinkDown
  <2>2. Connected' /\ Flight' /\ Latest'
    BY <1>1, <2>1, NoneFills DEF PromptInv, Connected, Flight, OnTheWay, Latest
  <2> QED
    BY <1>2, <2>2 DEF PromptInv
<1>8. ~AtNoise
  BY DEF AtNoise, Prompt
<1> QED
  BY <1>5, <1>6, <1>7, <1>8 DEF Environment

\* A call that is made has nothing on its way and no answer.
LEMMA ExecutePrompt ==
  ASSUME TypeInv, PromptInv, NEW c \in Callers, NEW r \in Commands, Execute(c, r)
  PROVE  PromptInv'
<1>1. /\ UNCHANGED <<current, future, buffer, link, encrypted, air, inbox, log>>
      /\ phase[c] = "idle" /\ phase'[c] = "queued" /\ outcome'[c].kind = "none"
      /\ \A d \in Callers : d # c => /\ phase'[d] = phase[d] /\ cmd'[d] = cmd[d]
                                     /\ call'[d] = call[d] /\ outcome'[d] = outcome[d]
  BY DEF Execute, notifyVars, deviceVars, Failed, TypeInv, TypeOK
<1>2. Connected'
  BY <1>1 DEF PromptInv, Connected
<1>3. Expected' = Expected
  BY <1>1 DEF Expected
<1>4. Flight'
  BY <1>1, <1>3 DEF PromptInv, Flight, OnTheWay
<1>5. Latest'
  BY <1>1 DEF PromptInv, Latest
<1>6. OwnReply'
  BY <1>1 DEF PromptInv, OwnReply
<1> QED
  BY <1>2, <1>4, <1>5, <1>6 DEF PromptInv

LEMMA PromptNext ==
  ASSUME Prompt, TypeInv, LockInv, ReplyInv, PromptInv, [Next]_vars
  PROVE  PromptInv'
<1>1. CASE UNCHANGED vars
  BY <1>1 DEF vars, callVars, notifyVars, deviceVars, PromptInv, Connected, Flight, OnTheWay, Fills, Expected,
              Latest, Of, OwnReply
<1>2. \A i \in 1..Len(queue) : ~Cancel(i)
  BY DEF Cancel, Prompt
<1> QED
  BY <1>1, <1>2, ExecutePrompt, CallerPrompt, DeliverPrompt, OwnerPrompt, EnvironmentPrompt DEF Next

LEMMA InitPrompt == Init => PromptInv
<1> SUFFICES ASSUME Init PROVE PromptInv
  OBVIOUS
<1>1. air = <<>> /\ inbox = <<>> /\ buffer = <<>> /\ Len(<<>>) = 0
  BY DEF Init
<1>2. Connected /\ Flight
  BY <1>1, NoneFills DEF Init, Connected, Flight, OnTheWay
<1>3. \A i \in 1..0 : FALSE
  OBVIOUS
<1>4. Latest /\ OwnReply
  BY <1>1, <1>3 DEF Init, Latest, Of, OwnReply, Failed
<1> QED
  BY <1>2, <1>4 DEF PromptInv

\* Where the device answers in time or not at all and no task is cancelled, a call
\* returns the answer to a request of its own, through retries, drops, exceptions,
\* garbled replies and reconnects (client.py:64-160).
THEOREM ClientOwnReply ==
  ASSUME Prompt
  PROVE  Spec => []OwnReply
<1>1. Init => ReplyInv /\ PromptInv
  BY InitReplies, InitPrompt
<1>2. IInv /\ ReplyInv /\ PromptInv /\ [Next]_vars => ReplyInv' /\ PromptInv'
  BY ReplyNext, PromptNext DEF IInv
<1>3. PromptInv => OwnReply
  BY DEF PromptInv
<1> QED
  BY InitInv, NextInv, <1>1, <1>2, <1>3, PTL DEF Spec
=============================================================================
