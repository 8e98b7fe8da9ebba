-------------------------- MODULE DeviceManagerProofs --------------------------
(***************************************************************************)
(* Proofs about the part of MCDaemon that is DeviceManager, for any number *)
(* of devices, reloads and commands: types, HandlersOwned and OneTaker.    *)
(***************************************************************************)
EXTENDS MCDaemon, FiniteSetTheorems, TLAPS

LEMMA ManagerBounds ==
  /\ MaxReloads \in Nat /\ MaxRequests \in Nat
  /\ IsFiniteSet(Addresses) /\ "no scan" \notin Addresses
<1>1. \A some : D!IsFiniteSet(some) <=> IsFiniteSet(some)
  BY DEF IsFiniteSet, D!IsFiniteSet
<1> QED
  BY <1>1, DaemonAssumption, Zenon DEF DaemonAssumption, D!ManagerAssumption

\* OneTaker, with the Cardinality of this module.
LEMMA OneTakerMeans == D!OneTaker <=> \A i \in DOMAIN requests : Cardinality(requests[i]) <= 1
<1>1. \A some : D!Cardinality(some) = Cardinality(some)
  BY DEF Cardinality, D!Cardinality
<1> QED
  BY <1>1, Zenon DEF D!OneTaker

\* A step of the composition is a step of the manager or leaves it as it is.
LEMMA ManagerMoves == [Next]_vars => [D!Next]_D!vars
BY DEF Next, vars, manager, D!vars, D!daemonVars, D!configVars, D!managerVars, D!commandVars

ScanRecord == [known : SUBSET Addresses, seen : SUBSET Addresses]

\* The first scan is the boot, the periodic loop is over when the daemon closes.
Typed ==
  /\ D!TypeOK
  /\ scans \in [D!Scanners -> {D!NoScan} \cup ScanRecord]
  /\ D!Scanning(D!Startup) => phase = "boot"
  /\ phase \in {"closing", "exiting", "exited"} => loop = "ended"

\* A device in _devices belongs to one task at most.
OneCurrent ==
  \A t, u \in DOMAIN tasks :
    tasks[t].current /\ tasks[u].current /\ tasks[t].addr = tasks[u].addr => t = u

IInv == Typed /\ D!HandlersOwned /\ OneCurrent /\ D!OneTaker

-----------------------------------------------------------------------------
(* Tasks.                                                                  *)

\* A cancelled handler is on its way out, and the rest of it as it was.
LEMMA CancelledFacts ==
  ASSUME NEW task \in D!Task
  PROVE  /\ D!Cancelled(task) \in D!Task
         /\ D!Cancelled(task).addr = task.addr /\ D!Cancelled(task).current = task.current
         /\ D!Cancelled(task).link \in {"leaving", "gone", "crashed"}
<1>1. task.link \in {"down", "up", "leaving", "gone", "crashed"} /\ task.addr \in Addresses /\ task.current \in BOOLEAN
  BY DEF D!Task
<1> DEFINE after == CASE task.link = "up" -> "leaving" [] task.link = "down" -> "gone" [] OTHER -> task.link
<1>2. after \in {"leaving", "gone", "crashed"}
  BY <1>1
<1>3. task = [addr |-> task.addr, link |-> task.link, current |-> task.current]
  BY DEF D!Task
<1>4. D!Cancelled(task) = [addr |-> task.addr, link |-> after, current |-> task.current]
  BY <1>3 DEF D!Cancelled
<1> HIDE DEF after
<1>5. D!Cancelled(task) \in D!Task
  BY <1>1, <1>2, <1>4 DEF D!Task
<1> QED
  BY <1>2, <1>4, <1>5

\* A task whose device is, or is no longer, the one in _devices.
LEMMA CurrentFacts ==
  ASSUME NEW task \in D!Task, NEW b \in BOOLEAN
  PROVE  LET now == [task EXCEPT !.current = b]
         IN  now \in D!Task /\ now.addr = task.addr /\ now.link = task.link /\ now.current = b
BY DEF D!Task

\* A sequence of the members of a set, each of them once.
LEMMA SetToSeqFacts ==
  ASSUME NEW S, IsFiniteSet(S)
  PROVE  /\ Cardinality(S) \in Nat /\ D!SetToSeq(S) \in [1..Cardinality(S) -> S]
         /\ \A i, j \in 1..Cardinality(S) : D!SetToSeq(S)[i] = D!SetToSeq(S)[j] => i = j
<1>1. Cardinality(S) \in Nat
  BY FS_CardinalityType
<1>2. ExistsBijection(1..Cardinality(S), S)
  BY <1>1, FS_NatBijection, FS_CountingElements
<1>3. \E f \in [1..Cardinality(S) -> S] : D!IsInjective(f)
  BY <1>2, Zenon DEF ExistsBijection, Bijection, Injection, IsInjective, D!IsInjective
<1>4. D!Cardinality(S) = Cardinality(S)
  BY DEF Cardinality, D!Cardinality
<1>5. D!SetToSeq(S) \in [1..Cardinality(S) -> S] /\ D!IsInjective(D!SetToSeq(S))
  BY <1>3, <1>4 DEF D!SetToSeq
<1> QED
  BY <1>1, <1>5 DEF D!IsInjective

\* Sequences over a larger set.
LEMMA SeqWider ==
  ASSUME NEW S, NEW T, S \subseteq T, NEW commandsOf \in Seq(SUBSET S)
  PROVE  commandsOf \in Seq(SUBSET T)
<1>1. Len(commandsOf) \in Nat /\ DOMAIN commandsOf = 1..Len(commandsOf)
      /\ \A i \in 1..Len(commandsOf) : commandsOf[i] \in SUBSET S
  OBVIOUS
<1>2. \A i \in 1..Len(commandsOf) : commandsOf[i] \in SUBSET T
  BY <1>1
<1> QED
  BY <1>1, <1>2

\* One sequence behind another.
LEMMA ConcatFacts ==
  ASSUME NEW S, NEW p \in Seq(S), NEW q \in Seq(S)
  PROVE  /\ Len(q) \in Nat /\ DOMAIN q = 1..Len(q) /\ p \o q \in Seq(S) /\ Len(p \o q) = Len(p) + Len(q)
         /\ \A t \in 1..Len(p) : (p \o q)[t] = p[t]
         /\ \A t \in Len(p) + 1..Len(p) + Len(q) :
              (p \o q)[t] = q[t - Len(p)] /\ t - Len(p) \in 1..Len(q)
OBVIOUS

\* The new handlers: one for each device.
LEMMA SpawnFacts ==
  ASSUME NEW A \in SUBSET Addresses
  PROVE  LET new == D!Spawn(A)
         IN  /\ new \in Seq(D!Task)
             /\ \A i \in 1..Len(new) : new[i].addr \in A
             /\ \A i, j \in 1..Len(new) : new[i].addr = new[j].addr => i = j
<1> DEFINE n == Cardinality(A)
           order == D!SetToSeq(A)
           new == D!Spawn(A)
<1>1. n \in Nat /\ order \in [1..n -> A] /\ \A i, j \in 1..n : order[i] = order[j] => i = j
  <2>1. IsFiniteSet(A)
    BY ManagerBounds, FS_Subset
  <2> QED
    BY <2>1, SetToSeqFacts
<1>2. new = [i \in DOMAIN order |-> [addr |-> order[i], link |-> "down", current |-> TRUE]]
  BY DEF D!Spawn
<1> HIDE DEF n, order, new
<1>3. new = [i \in 1..n |-> [addr |-> order[i], link |-> "down", current |-> TRUE]]
  BY <1>1, <1>2
<1>4. \A a \in A : [addr |-> a, link |-> "down", current |-> TRUE] \in D!Task
  BY DEF D!Task
<1>5. new \in [1..n -> D!Task]
  BY <1>1, <1>3, <1>4
<1>6. new \in Seq(D!Task) /\ Len(new) = n
  BY <1>1, <1>5
<1>7. \A i \in 1..n : new[i].addr = order[i]
  BY <1>3
<1>8. \A i \in 1..Len(new) : new[i].addr \in A
  BY <1>1, <1>6, <1>7
<1>9. \A i, j \in 1..Len(new) : new[i].addr = new[j].addr => i = j
  BY <1>1, <1>6, <1>7
<1> QED
  BY <1>6, <1>8, <1>9 DEF new

\* Before the first scan there is no task.
LEMMA InitInv == D!Init => IInv
<1> SUFFICES ASSUME D!Init PROVE IInv
  OBVIOUS
<1> USE DEF D!Init
<1>1. scans \in [D!Scanners -> {D!NoScan} \cup ScanRecord]
  BY DEF D!Scanners, ScanRecord
<1>2. ~D!Scanning(D!Periodic)
  BY DEF D!Scanning, D!Periodic, D!Startup, D!Scanners
<1>3. reloads \in Seq(SUBSET Addresses) /\ tasks \in Seq(D!Task) /\ requests \in Seq(SUBSET DOMAIN tasks)
  OBVIOUS
<1>4. Typed
  BY <1>1, <1>2, <1>3 DEF Typed, D!TypeOK, D!Scanning, ScanRecord
<1> QED
  BY <1>4 DEF IInv, D!HandlersOwned, OneCurrent, D!OneTaker

-----------------------------------------------------------------------------
(* A reconcile.                                                            *)

\* A scan is told from none.
LEMMA ScanRecordFacts ==
  /\ D!NoScan \notin ScanRecord
  /\ \A scan \in ScanRecord, addrs \in SUBSET Addresses :
       [scan EXCEPT !.seen = @ \cup addrs] \in ScanRecord
<1>1. D!NoScan \notin ScanRecord
  <2>1. \A scan \in ScanRecord : "no scan" \notin scan.seen
    BY ManagerBounds DEF ScanRecord
  <2>2. "no scan" \in D!NoScan.seen
    BY DEF D!NoScan
  <2> QED
    BY <2>1, <2>2
<1>2. ASSUME NEW scan \in ScanRecord, NEW addrs \in SUBSET Addresses
      PROVE  [scan EXCEPT !.seen = @ \cup addrs] \in ScanRecord
  <2>1. scan.known \in SUBSET Addresses /\ scan.seen \cup addrs \in SUBSET Addresses
    BY DEF ScanRecord
  <2>2. [scan EXCEPT !.seen = @ \cup addrs] = [known |-> scan.known, seen |-> scan.seen \cup addrs]
    BY DEF ScanRecord
  <2> QED
    BY <2>1, <2>2 DEF ScanRecord
<1> QED
  BY <1>1, <1>2

\* Scans that go on stay scans.
LEMMA WatchFacts ==
  ASSUME IInv, NEW ts, D!Watch(ts)
  PROVE  /\ scans' \in [D!Scanners -> {D!NoScan} \cup ScanRecord]
         /\ \A s \in D!Scanners : D!Scanning(s)' <=> D!Scanning(s)
<1>1. D!Advertising(ts) \in SUBSET Addresses
  BY DEF D!Advertising
<1>2. scans' = [s \in D!Scanners |->
                  IF D!Scanning(s) THEN [scans[s] EXCEPT !.seen = @ \cup D!Advertising(ts)] ELSE D!NoScan]
  BY DEF D!Watch
<1>3. ASSUME NEW s \in D!Scanners
      PROVE  scans'[s] \in {D!NoScan} \cup ScanRecord /\ (D!Scanning(s)' <=> D!Scanning(s))
  <2>1. CASE D!Scanning(s)
    <3>1. scans[s] \in ScanRecord
      BY <2>1 DEF IInv, Typed, D!TypeOK, ScanRecord
    <3>2. scans'[s] \in ScanRecord
      BY <1>1, <1>2, <2>1, <3>1, ScanRecordFacts
    <3> QED
      BY <2>1, <3>2, ScanRecordFacts DEF D!Scanning
  <2>2. CASE ~D!Scanning(s)
    BY <1>2, <2>2 DEF D!Scanning
  <2> QED
    BY <2>1, <2>2
<1> QED
  BY <1>2, <1>3

\* What a reconcile does to the tasks: no task is started for a device that has one in
\* _handlers, or while an earlier one has its device.
LEMMA ReconciledTasks ==
  ASSUME IInv, NEW s \in D!Scanners, D!Reconciled(s)
  PROVE  \E found \in SUBSET Addresses, m \in Nat :
    /\ statuses' \in [Addresses -> {"unknown", "online", "missing", "new"}]
    /\ devices' \subseteq Addresses /\ tasks' \in Seq(D!Task)
    /\ Len(tasks) \in Nat /\ Len(tasks') = Len(tasks) + m
    /\ \A t \in 1..Len(tasks) :
         /\ tasks'[t].addr = tasks[t].addr
         /\ tasks'[t].current => tasks[t].current /\ tasks[t].addr \notin config \cap found
         /\ tasks'[t].link \in {"down", "up"} => t \notin D!Evicted(s) /\ tasks[t].link \in {"down", "up"}
    /\ \A t \in Len(tasks) + 1..Len(tasks) + m :
         /\ tasks'[t].addr \in config \cap found /\ ~D!Handled(tasks'[t].addr)
         /\ \A u \in Len(tasks) + 1..Len(tasks) + m : tasks'[t].addr = tasks'[u].addr => t = u
    /\ handlers' = (handlers \ D!Evicted(s)) \cup (Len(tasks) + 1..Len(tasks) + m)
<1>1. PICK found \in SUBSET scans[s].seen :
        /\ statuses' = [a \in Addresses |-> D!Classify(a, scans[s].known, found)]
        /\ devices' = devices \cup (config \cap found)
        /\ LET kept == [t \in DOMAIN tasks |->
                          [D!Evict(t, D!Evicted(s)) EXCEPT
                             !.current = @ /\ tasks[t].addr \notin D!Rebuilt(found)]]
               new == D!Spawn(D!Start(s))
           IN  /\ tasks' = kept \o new
               /\ handlers' = (handlers \ D!Evicted(s)) \cup {Len(kept) + i : i \in DOMAIN new}
  BY DEF D!Reconciled, D!ScanEnds
<1> DEFINE kept == [t \in DOMAIN tasks |->
                     [D!Evict(t, D!Evicted(s)) EXCEPT !.current = @ /\ tasks[t].addr \notin D!Rebuilt(found)]]
           new == D!Spawn(D!Start(s))
<1>2. /\ tasks \in Seq(D!Task) /\ config \subseteq Addresses /\ devices \subseteq Addresses
      /\ Len(tasks) \in Nat /\ DOMAIN tasks = 1..Len(tasks) /\ \A t \in 1..Len(tasks) : tasks[t] \in D!Task
  BY DEF IInv, Typed, D!TypeOK
<1>3. found \in SUBSET Addresses
  BY <1>1 DEF D!Reconciled, IInv, Typed, D!TypeOK
<1>4. /\ statuses' \in [Addresses -> {"unknown", "online", "missing", "new"}]
      /\ devices' \subseteq Addresses
  BY <1>1, <1>2, <1>3 DEF D!Classify
<1>5. ASSUME NEW t \in 1..Len(tasks)
      PROVE  /\ kept[t] \in D!Task /\ kept[t].addr = tasks[t].addr
             /\ kept[t].current => tasks[t].current /\ tasks[t].addr \notin config \cap found
             /\ kept[t].link \in {"down", "up"} => t \notin D!Evicted(s) /\ tasks[t].link \in {"down", "up"}
  <2> DEFINE old == D!Evict(t, D!Evicted(s))
             b == old.current /\ tasks[t].addr \notin D!Rebuilt(found)
  <2>1. tasks[t] \in D!Task
    BY <1>2
  <2>2. /\ old \in D!Task /\ old.addr = tasks[t].addr /\ old.current = tasks[t].current
        /\ old.link \in {"down", "up"} => t \notin D!Evicted(s) /\ tasks[t].link \in {"down", "up"}
    <3>1. CASE t \in D!Evicted(s)
      <4>1. old = D!Cancelled(tasks[t])
        BY <3>1 DEF D!Evict
      <4> QED
        BY <2>1, <4>1, CancelledFacts
    <3>2. CASE t \notin D!Evicted(s)
      <4>1. old = tasks[t]
        BY <3>2 DEF D!Evict
      <4> QED
        BY <2>1, <3>2, <4>1
    <3> QED
      BY <3>1, <3>2
  <2>3. kept[t] = [old EXCEPT !.current = b]
    BY <1>2
  <2>4. b \in BOOLEAN
    OBVIOUS
  <2> HIDE DEF old, b, kept
  <2>5. /\ kept[t] \in D!Task /\ kept[t].addr = old.addr /\ kept[t].link = old.link /\ kept[t].current = b
    BY <2>2, <2>3, <2>4, CurrentFacts
  <2>6. b => tasks[t].current /\ tasks[t].addr \notin config \cap found
    BY <2>2 DEF D!Rebuilt, b
  <2> QED
    BY <2>2, <2>5, <2>6
<1>6. /\ D!Start(s) \in SUBSET Addresses
      /\ \A a \in D!Start(s) : a \in config \cap found /\ ~D!Handled(a)
  <2>1. D!Start(s) \in SUBSET Addresses /\ \A a \in D!Start(s) : statuses'[a] = "online" /\ ~D!Handled(a)
    BY DEF D!Start, D!Online
  <2>2. ASSUME NEW a \in Addresses, D!Classify(a, scans[s].known, found) = "online"
        PROVE  a \in config /\ (a \in found \/ D!Handled(a))
    BY <2>2 DEF D!Classify
  <2> QED
    BY <1>1, <2>1, <2>2
<1>7. /\ new \in Seq(D!Task) /\ \A i \in 1..Len(new) : new[i].addr \in D!Start(s)
      /\ \A i, j \in 1..Len(new) : new[i].addr = new[j].addr => i = j
  BY <1>6, SpawnFacts
<1>8. kept \in Seq(D!Task) /\ Len(kept) = Len(tasks)
  <2>1. kept = [t \in 1..Len(tasks) |-> kept[t]]
    BY <1>2
  <2> HIDE DEF kept
  <2>2. kept \in [1..Len(tasks) -> D!Task]
    BY <1>5, <2>1
  <2> QED
    BY <1>2, <2>2
<1>9. tasks' = kept \o new /\ handlers' = (handlers \ D!Evicted(s)) \cup {Len(kept) + i : i \in DOMAIN new}
  BY <1>1
<1> DEFINE m == Len(new)
<1> HIDE DEF kept, new, m
<1>10. /\ m \in Nat /\ DOMAIN new = 1..m /\ tasks' \in Seq(D!Task) /\ Len(tasks') = Len(tasks) + m
       /\ \A t \in 1..Len(tasks) : tasks'[t] = kept[t]
       /\ \A t \in Len(tasks) + 1..Len(tasks) + m : tasks'[t] = new[t - Len(tasks)] /\ t - Len(tasks) \in 1..m
  <2> DEFINE both == kept \o new
  <2>1. /\ Len(new) \in Nat /\ DOMAIN new = 1..Len(new) /\ both \in Seq(D!Task)
        /\ Len(both) = Len(kept) + Len(new)
        /\ \A t \in 1..Len(kept) : both[t] = kept[t]
        /\ \A t \in Len(kept) + 1..Len(kept) + Len(new) :
             both[t] = new[t - Len(kept)] /\ t - Len(kept) \in 1..Len(new)
    BY <1>7, <1>8, ConcatFacts
  <2>2. tasks' = both
    BY <1>9
  <2> HIDE DEF both
  <2> QED
    BY <1>8, <2>1, <2>2 DEF m
<1>11. {Len(kept) + i : i \in DOMAIN new} = Len(tasks) + 1..Len(tasks) + m
  <2>1. \A i \in 1..m : Len(tasks) + i \in Len(tasks) + 1..Len(tasks) + m
    BY <1>2, <1>10
  <2>2. \A t \in Len(tasks) + 1..Len(tasks) + m : t - Len(tasks) \in 1..m /\ t = Len(tasks) + (t - Len(tasks))
    BY <1>2, <1>10
  <2>3. DOMAIN new = 1..m /\ Len(kept) = Len(tasks)
    BY <1>8, <1>10
  <2> HIDE DEF m
  <2> QED
    BY <2>1, <2>2, <2>3, Zenon
<1>12. \A t \in Len(tasks) + 1..Len(tasks) + m :
         /\ tasks'[t].addr \in config \cap found /\ ~D!Handled(tasks'[t].addr)
         /\ \A u \in Len(tasks) + 1..Len(tasks) + m : tasks'[t].addr = tasks'[u].addr => t = u
  <2> SUFFICES ASSUME NEW t \in Len(tasks) + 1..Len(tasks) + m
               PROVE  /\ tasks'[t].addr \in config \cap found /\ ~D!Handled(tasks'[t].addr)
                      /\ \A u \in Len(tasks) + 1..Len(tasks) + m : tasks'[t].addr = tasks'[u].addr => t = u
    OBVIOUS
  <2>1. tasks'[t].addr \in D!Start(s)
    BY <1>7, <1>10
  <2>2. ASSUME NEW u \in Len(tasks) + 1..Len(tasks) + m, tasks'[t].addr = tasks'[u].addr
        PROVE  t = u
    <3>1. t - Len(tasks) = u - Len(tasks)
      BY <1>7, <1>10, <2>2
    <3> QED
      BY <1>2, <1>10, <3>1
  <2> QED
    BY <1>6, <2>1, <2>2
<1>13. \A t \in 1..Len(tasks) :
         /\ tasks'[t].addr = tasks[t].addr
         /\ tasks'[t].current => tasks[t].current /\ tasks[t].addr \notin config \cap found
         /\ tasks'[t].link \in {"down", "up"} => t \notin D!Evicted(s) /\ tasks[t].link \in {"down", "up"}
  BY <1>5, <1>10
<1> QED
  BY <1>2, <1>3, <1>4, <1>9, <1>10, <1>11, <1>12, <1>13

\* However the reconciles overlap, each leaves one owner of each device.
LEMMA ReconciledInv ==
  ASSUME IInv, NEW s \in D!Scanners, D!Reconciled(s)
  PROVE  IInv'
<1> DEFINE n == Len(tasks)
<1>1. PICK found \in SUBSET Addresses, m \in Nat :
    /\ statuses' \in [Addresses -> {"unknown", "online", "missing", "new"}]
    /\ devices' \subseteq Addresses /\ tasks' \in Seq(D!Task)
    /\ n \in Nat /\ Len(tasks') = n + m
    /\ \A t \in 1..n :
         /\ tasks'[t].addr = tasks[t].addr
         /\ tasks'[t].current => tasks[t].current /\ tasks[t].addr \notin config \cap found
         /\ tasks'[t].link \in {"down", "up"} => t \notin D!Evicted(s) /\ tasks[t].link \in {"down", "up"}
    /\ \A t \in n + 1..n + m :
         /\ tasks'[t].addr \in config \cap found /\ ~D!Handled(tasks'[t].addr)
         /\ \A u \in n + 1..n + m : tasks'[t].addr = tasks'[u].addr => t = u
    /\ handlers' = (handlers \ D!Evicted(s)) \cup (n + 1..n + m)
  BY ReconciledTasks
<1>2. /\ UNCHANGED <<awaited, config, reloads, reloaded, api, requests, accepted, dropped>>
      /\ scans' = [r \in D!Scanners |->
                     CASE r = s -> D!NoScan
                       [] r # s /\ D!Scanning(r) -> [scans[r] EXCEPT !.seen = @ \cup D!Advertising(tasks')]
                       [] OTHER -> D!NoScan]
      /\ phase' = IF s = D!Startup THEN "run" ELSE phase
      /\ loop' = CASE s # D!Periodic -> loop
                   [] s = D!Periodic /\ phase \in {"boot", "run"} -> "sleeping"
                   [] OTHER -> "ended"
      /\ D!Scanning(s)
  BY DEF D!Reconciled, D!configVars, D!commandVars
<1>3. /\ tasks \in Seq(D!Task) /\ DOMAIN tasks = 1..n /\ handlers \subseteq 1..n /\ awaited \subseteq 1..n
      /\ requests \in Seq(SUBSET (1..n)) /\ D!Startup \in D!Scanners /\ D!Periodic \in D!Scanners /\ D!Startup # D!Periodic
  <2>1. /\ tasks \in Seq(D!Task) /\ handlers \cup awaited \subseteq DOMAIN tasks
        /\ requests \in Seq(SUBSET DOMAIN tasks)
    BY DEF IInv, Typed, D!TypeOK
  <2>2. DOMAIN tasks = 1..n
    BY <2>1
  <2>3. D!Startup \in D!Scanners /\ D!Periodic \in D!Scanners /\ D!Startup # D!Periodic
    BY DEF D!Scanners, D!Startup, D!Periodic
  <2> HIDE DEF n
  <2> QED
    BY <2>1, <2>2, <2>3
<1> HIDE DEF n
<1>4. DOMAIN tasks' = 1..n + m /\ \A t \in 1..n + m : t \in 1..n \/ t \in n + 1..n + m
  BY <1>1
<1>5. 1..n \subseteq 1..n + m /\ (n + 1..n + m) \subseteq 1..n + m /\ \A t \in n + 1..n + m : t \notin 1..n
  BY <1>1
<1>6. /\ scans' \in [D!Scanners -> {D!NoScan} \cup ScanRecord] /\ ~D!Scanning(s)'
      /\ \A r \in D!Scanners \ {s} : D!Scanning(r)' <=> D!Scanning(r)
  <2>1. D!Advertising(tasks') \in SUBSET Addresses
    BY DEF D!Advertising
  <2>2. ASSUME NEW r \in D!Scanners, r # s
        PROVE  scans'[r] \in {D!NoScan} \cup ScanRecord /\ (D!Scanning(r)' <=> D!Scanning(r))
    <3>1. CASE D!Scanning(r)
      <4>1. scans[r] \in ScanRecord
        BY <3>1 DEF IInv, Typed, D!TypeOK, ScanRecord
      <4>2. scans'[r] \in ScanRecord
        BY <1>2, <2>1, <2>2, <3>1, <4>1, ScanRecordFacts
      <4> QED
        BY <3>1, <4>2, ScanRecordFacts DEF D!Scanning
    <3>2. CASE ~D!Scanning(r)
      BY <1>2, <2>2, <3>2 DEF D!Scanning
    <3> QED
      BY <3>1, <3>2
  <2>3. scans'[s] = D!NoScan
    BY <1>2
  <2> QED
    BY <1>2, <2>2, <2>3 DEF D!Scanning
<1>7. /\ phase' \in {"boot", "run", "stopping", "closing", "exiting", "exited"}
      /\ D!Scanning(D!Startup)' => phase' = "boot"
      /\ phase' \in {"closing", "exiting", "exited"} => loop' = "ended"
      /\ loop' \in {"sleeping", "scanning", "ended"} /\ (loop' = "scanning" <=> D!Scanning(D!Periodic)')
      /\ phase' \in {"boot", "run"} => phase \in {"boot", "run"}
  <2>1. CASE s = D!Startup
    BY <1>2, <1>3, <1>6, <2>1 DEF IInv, Typed, D!TypeOK
  <2>2. CASE s = D!Periodic
    BY <1>2, <1>3, <1>6, <2>2 DEF IInv, Typed, D!TypeOK
  <2>3. CASE s \notin {D!Startup, D!Periodic}
    BY <1>2, <1>3, <1>6, <2>3 DEF IInv, Typed, D!TypeOK
  <2> QED
    BY <2>1, <2>2, <2>3
<1>8. Typed'
  <2>1. requests \in Seq(SUBSET (1..n + m))
    BY <1>3, <1>5, SeqWider
  <2>2. \A r \in D!Scanners : D!Scanning(r)' => scans'[r] \in ScanRecord
    BY <1>6 DEF D!Scanning
  <2>3. handlers' \cup awaited' \subseteq 1..n + m
    BY <1>1, <1>2, <1>3, <1>5
  <2> QED
    BY <1>1, <1>2, <1>4, <1>6, <1>7, <2>1, <2>2, <2>3 DEF IInv, Typed, D!TypeOK, ScanRecord
<1>9. D!HandlersOwned'
  <2> SUFFICES ASSUME phase' \in {"boot", "run"}
               PROVE  /\ \A t \in 1..n + m : tasks'[t].link \in {"down", "up"} => t \in handlers'
                      /\ \A t, u \in handlers' : tasks'[t].addr = tasks'[u].addr => t = u
    BY <1>4 DEF D!HandlersOwned
  <2>1. /\ \A t \in 1..n : tasks[t].link \in {"down", "up"} => t \in handlers
        /\ \A t, u \in handlers : tasks[t].addr = tasks[u].addr => t = u
    BY <1>3, <1>7 DEF IInv, D!HandlersOwned
  <2>2. \A t \in 1..n + m : tasks'[t].link \in {"down", "up"} => t \in handlers'
    BY <1>1, <1>4, <2>1
  <2>3. \A t \in handlers, u \in n + 1..n + m : tasks'[t].addr # tasks'[u].addr
    BY <1>1, <1>3 DEF D!Handled
  <2>4. ASSUME NEW t \in handlers', NEW u \in handlers', tasks'[t].addr = tasks'[u].addr
        PROVE  t = u
    <3>1. /\ t \in handlers \/ t \in n + 1..n + m
          /\ u \in handlers \/ u \in n + 1..n + m
      BY <1>1
    <3>2. CASE t \in handlers /\ u \in handlers
      BY <1>1, <1>3, <2>1, <2>4, <3>2
    <3>3. CASE t \in n + 1..n + m /\ u \in n + 1..n + m
      BY <1>1, <2>4, <3>3
    <3> QED
      BY <2>3, <2>4, <3>1, <3>2, <3>3
  <2> QED
    BY <2>2, <2>4
<1>10. OneCurrent'
  <2> SUFFICES ASSUME NEW t \in 1..n + m, NEW u \in 1..n + m,
                      tasks'[t].current, tasks'[u].current, tasks'[t].addr = tasks'[u].addr
               PROVE  t = u
    BY <1>4 DEF OneCurrent
  <2>1. CASE t \in 1..n /\ u \in 1..n
    BY <1>1, <1>3, <2>1 DEF IInv, OneCurrent
  <2>2. CASE t \in n + 1..n + m /\ u \in n + 1..n + m
    BY <1>1, <2>2
  <2>3. CASE t \in 1..n /\ u \in n + 1..n + m
    BY <1>1, <2>3
  <2>4. CASE t \in n + 1..n + m /\ u \in 1..n
    BY <1>1, <2>4
  <2> QED
    BY <1>4, <2>1, <2>2, <2>3, <2>4
<1>11. D!OneTaker'
  BY <1>2 DEF IInv, D!OneTaker
<1> QED
  BY <1>8, <1>9, <1>10, <1>11 DEF IInv

-----------------------------------------------------------------------------
(* The other steps.                                                        *)

\* Tasks that change their state, and no more of them: none comes to life again, none
\* gets a device back.
LEMMA TasksKeep ==
  ASSUME IInv, tasks' \in Seq(D!Task), Len(tasks') = Len(tasks),
         \A t \in 1..Len(tasks) :
           /\ tasks'[t].addr = tasks[t].addr /\ (tasks'[t].current => tasks[t].current)
           /\ tasks'[t].link \in {"down", "up"} => tasks[t].link \in {"down", "up"}
  PROVE  /\ DOMAIN tasks' = DOMAIN tasks /\ DOMAIN tasks = 1..Len(tasks) /\ OneCurrent'
         /\ phase' \in {"boot", "run"} /\ phase \in {"boot", "run"} /\ handlers' = handlers => D!HandlersOwned'
<1>1. tasks \in Seq(D!Task) /\ handlers \subseteq DOMAIN tasks
  BY DEF IInv, Typed, D!TypeOK
<1>2. DOMAIN tasks' = 1..Len(tasks) /\ DOMAIN tasks = 1..Len(tasks)
  BY <1>1
<1>3. OneCurrent'
  BY <1>2 DEF IInv, OneCurrent
<1>4. ASSUME phase' \in {"boot", "run"}, phase \in {"boot", "run"}, handlers' = handlers
      PROVE  D!HandlersOwned'
  BY <1>1, <1>2, <1>4 DEF IInv, D!HandlersOwned
<1> QED
  BY <1>2, <1>3, <1>4

\* Handlers that are cancelled.
LEMMA CancelAllFacts ==
  ASSUME IInv, NEW ids, tasks' = D!CancelAll(ids)
  PROVE  /\ tasks' \in Seq(D!Task) /\ Len(tasks') = Len(tasks)
         /\ \A t \in 1..Len(tasks) :
              /\ tasks'[t].addr = tasks[t].addr /\ (tasks'[t].current => tasks[t].current)
              /\ tasks'[t].link \in {"down", "up"} => tasks[t].link \in {"down", "up"}
<1>1. tasks \in Seq(D!Task)
  BY DEF IInv, Typed, D!TypeOK
<1>2. Len(tasks) \in Nat /\ DOMAIN tasks = 1..Len(tasks) /\ \A t \in 1..Len(tasks) : tasks[t] \in D!Task
  BY <1>1
<1>3. tasks' = [t \in 1..Len(tasks) |-> IF t \in ids THEN D!Cancelled(tasks[t]) ELSE tasks[t]]
  BY <1>2 DEF D!CancelAll
<1>4. ASSUME NEW t \in 1..Len(tasks)
      PROVE  /\ tasks'[t] \in D!Task
             /\ tasks'[t].addr = tasks[t].addr /\ (tasks'[t].current => tasks[t].current)
             /\ tasks'[t].link \in {"down", "up"} => tasks[t].link \in {"down", "up"}
  BY <1>2, <1>3, CancelledFacts
<1>5. tasks' \in [1..Len(tasks) -> D!Task]
  BY <1>3, <1>4
<1>6. tasks' \in Seq(D!Task) /\ Len(tasks') = Len(tasks)
  BY <1>2, <1>5
<1> QED
  BY <1>4, <1>6

\* The tasks of Forget, whose devices are out of _devices.
LEMMA ForgottenFacts ==
  ASSUME IInv, tasks' = [t \in DOMAIN tasks |-> [tasks[t] EXCEPT !.current = FALSE]]
  PROVE  /\ tasks' \in Seq(D!Task) /\ Len(tasks') = Len(tasks)
         /\ \A t \in 1..Len(tasks) :
              /\ tasks'[t].addr = tasks[t].addr /\ (tasks'[t].current => tasks[t].current)
              /\ tasks'[t].link \in {"down", "up"} => tasks[t].link \in {"down", "up"}
<1>1. tasks \in Seq(D!Task)
  BY DEF IInv, Typed, D!TypeOK
<1>2. Len(tasks) \in Nat /\ DOMAIN tasks = 1..Len(tasks) /\ \A t \in 1..Len(tasks) : tasks[t] \in D!Task
  BY <1>1
<1>3. ASSUME NEW t \in 1..Len(tasks)
      PROVE  /\ tasks'[t] \in D!Task
             /\ tasks'[t].addr = tasks[t].addr /\ (tasks'[t].current => tasks[t].current)
             /\ tasks'[t].link \in {"down", "up"} => tasks[t].link \in {"down", "up"}
  BY <1>2, CurrentFacts
<1>4. tasks' \in [1..Len(tasks) -> D!Task]
  BY <1>2, <1>3
<1>5. tasks' \in Seq(D!Task) /\ Len(tasks') = Len(tasks)
  BY <1>2, <1>4
<1> QED
  BY <1>3, <1>5

\* A link that goes up or down.
LEMMA LinkFacts ==
  ASSUME IInv, NEW t \in DOMAIN tasks, NEW to \in {"down", "up", "crashed", "gone"},
         to \in {"down", "up"} => tasks[t].link \in {"down", "up"},
         tasks' = [tasks EXCEPT ![t].link = to]
  PROVE  /\ tasks' \in Seq(D!Task) /\ Len(tasks') = Len(tasks)
         /\ \A u \in 1..Len(tasks) :
              /\ tasks'[u].addr = tasks[u].addr /\ (tasks'[u].current => tasks[u].current)
              /\ tasks'[u].link \in {"down", "up"} => tasks[u].link \in {"down", "up"}
<1>1. tasks \in Seq(D!Task)
  BY DEF IInv, Typed, D!TypeOK
<1>2. Len(tasks) \in Nat /\ DOMAIN tasks = 1..Len(tasks) /\ \A u \in 1..Len(tasks) : tasks[u] \in D!Task
  BY <1>1
<1> DEFINE now == [tasks[t] EXCEPT !.link = to]
<1>3. now \in D!Task /\ now.addr = tasks[t].addr /\ now.current = tasks[t].current /\ now.link = to
  <2>1. tasks[t] \in D!Task
    BY <1>2
  <2> QED
    BY <2>1 DEF D!Task
<1>4. tasks' = [tasks EXCEPT ![t] = now]
  OBVIOUS
<1> HIDE DEF now
<1>5. tasks' \in Seq(D!Task) /\ Len(tasks') = Len(tasks)
  BY <1>1, <1>3, <1>4
<1>6. ASSUME NEW u \in 1..Len(tasks)
      PROVE  /\ tasks'[u].addr = tasks[u].addr /\ (tasks'[u].current => tasks[u].current)
             /\ tasks'[u].link \in {"down", "up"} => tasks[u].link \in {"down", "up"}
  BY <1>2, <1>3, <1>4
<1> QED
  BY <1>5, <1>6

\* What Typed says of the tasks, for the steps after which there are as many.
LEMMA TasksTyped ==
  ASSUME IInv, tasks' \in Seq(D!Task), Len(tasks') = Len(tasks)
  PROVE  /\ handlers \cup awaited \subseteq DOMAIN tasks' /\ requests \in Seq(SUBSET DOMAIN tasks')
         /\ DOMAIN tasks' = DOMAIN tasks
<1>1. tasks \in Seq(D!Task) /\ handlers \cup awaited \subseteq DOMAIN tasks /\ requests \in Seq(SUBSET DOMAIN tasks)
  BY DEF IInv, Typed, D!TypeOK
<1>2. DOMAIN tasks' = DOMAIN tasks
  BY <1>1
<1> QED
  BY <1>1, <1>2

\* The links of the handlers.
LEMMA LinkInv ==
  ASSUME IInv, NEW t \in DOMAIN tasks, D!LinkUp(t) \/ D!LinkDown(t) \/ D!Crash(t) \/ D!Left(t)
  PROVE  IInv'
<1>1. /\ UNCHANGED <<phase, loop, awaited, config, reloads, reloaded, statuses, devices, handlers,
                     api, requests, accepted, dropped>>
      /\ D!Watch(tasks')
      /\ \E to \in {"down", "up", "crashed", "gone"} :
           /\ to \in {"down", "up"} => tasks[t].link \in {"down", "up"}
           /\ tasks' = [tasks EXCEPT ![t].link = to]
  BY DEF D!LinkUp, D!LinkDown, D!Crash, D!Left, D!Becomes, D!daemonVars, D!configVars, D!managerVars, D!commandVars
<1>2. /\ tasks' \in Seq(D!Task) /\ Len(tasks') = Len(tasks)
      /\ \A u \in 1..Len(tasks) :
           /\ tasks'[u].addr = tasks[u].addr /\ (tasks'[u].current => tasks[u].current)
           /\ tasks'[u].link \in {"down", "up"} => tasks[u].link \in {"down", "up"}
  BY <1>1, LinkFacts
<1>3. /\ scans' \in [D!Scanners -> {D!NoScan} \cup ScanRecord]
      /\ \A s \in D!Scanners : D!Scanning(s)' <=> D!Scanning(s)
  BY <1>1, WatchFacts
<1>4. Typed'
  <2>1. D!Startup \in D!Scanners /\ D!Periodic \in D!Scanners
    BY DEF D!Scanners
  <2>2. \A s \in D!Scanners : D!Scanning(s)' => scans'[s] \in ScanRecord
    BY <1>3 DEF D!Scanning
  <2>3. /\ handlers \cup awaited \subseteq DOMAIN tasks' /\ requests \in Seq(SUBSET DOMAIN tasks')
    BY <1>2, TasksTyped
  <2> QED
    BY <1>1, <1>2, <1>3, <2>1, <2>2, <2>3 DEF IInv, Typed, D!TypeOK, ScanRecord
<1>5. OneCurrent' /\ D!HandlersOwned'
  <2>1. phase' \in {"boot", "run"} => D!HandlersOwned'
    BY <1>1, <1>2, TasksKeep
  <2>2. phase' \notin {"boot", "run"} => D!HandlersOwned'
    BY DEF D!HandlersOwned
  <2> QED
    BY <1>2, <2>1, <2>2, TasksKeep
<1>6. D!OneTaker'
  BY <1>1 DEF IInv, D!OneTaker
<1> QED
  BY <1>4, <1>5, <1>6 DEF IInv

\* Nothing but the scans, the configuration and the loop.
LEMMA ScanStartInv ==
  ASSUME IInv, D!PeriodicWakes \/ D!ApplyConfig \/ D!Reload
  PROVE  IInv'
<1>1. UNCHANGED <<phase, awaited, statuses, devices, handlers, tasks, api, requests, accepted, dropped>>
  BY DEF D!PeriodicWakes, D!ApplyConfig, D!Reload, D!daemonVars, D!managerVars, D!commandVars
<1>2. D!HandlersOwned' /\ OneCurrent' /\ D!OneTaker'
  BY <1>1 DEF IInv, D!HandlersOwned, OneCurrent, D!OneTaker
<1>3. /\ scans \in [D!Scanners -> {D!NoScan} \cup ScanRecord] /\ config \in SUBSET Addresses
      /\ reloads \in Seq(SUBSET Addresses) /\ D!Startup \in D!Scanners /\ D!Periodic \in D!Scanners
      /\ D!Startup # D!Periodic /\ D!Advertising(tasks) \in SUBSET Addresses
  BY DEF IInv, Typed, D!TypeOK, D!Scanners, D!Startup, D!Periodic, D!Advertising
<1>4. \A before \in SUBSET Addresses :
        /\ [known |-> before, seen |-> D!Advertising(tasks)] \in ScanRecord
        /\ [known |-> before, seen |-> D!Advertising(tasks)] # D!NoScan
  <2>1. \A before \in SUBSET Addresses : [known |-> before, seen |-> D!Advertising(tasks)] \in ScanRecord
    BY <1>3 DEF ScanRecord
  <2> QED
    BY <2>1, ScanRecordFacts
<1>5. CASE D!PeriodicWakes
  <2>1. /\ UNCHANGED <<config, reloads>> /\ loop' = "scanning" /\ loop = "sleeping"
        /\ scans' = [scans EXCEPT ![D!Periodic] = [known |-> config, seen |-> D!Advertising(tasks)]]
    BY <1>5 DEF D!PeriodicWakes, D!ScanBegins, D!configVars
  <2>2. /\ scans' \in [D!Scanners -> {D!NoScan} \cup ScanRecord] /\ D!Scanning(D!Periodic)'
        /\ D!Scanning(D!Startup)' <=> D!Scanning(D!Startup)
    BY <1>3, <1>4, <2>1 DEF D!Scanning
  <2>3. phase \notin {"closing", "exiting", "exited"}
    BY <2>1 DEF IInv, Typed
  <2>4. \A s \in D!Scanners : D!Scanning(s)' => scans'[s] \in ScanRecord
    BY <2>2 DEF D!Scanning
  <2>5. Typed'
    BY <1>1, <2>1, <2>2, <2>3, <2>4 DEF IInv, Typed, D!TypeOK, ScanRecord
  <2> QED
    BY <1>2, <2>5 DEF IInv
<1>6. CASE D!ApplyConfig
  <2> DEFINE r == <<"reload", reloaded - Len(reloads) + 1>>
             scan == [known |-> Head(reloads), seen |-> D!Advertising(tasks)]
  <2>1. /\ UNCHANGED loop /\ reloads # <<>> /\ reloads' = Tail(reloads) /\ config' = Head(reloads)
        /\ scans' = [scans EXCEPT ![r] = scan]
    BY <1>6 DEF D!ApplyConfig, D!daemonVars
  <2>2. reloads' \in Seq(SUBSET Addresses) /\ config' \in SUBSET Addresses
    BY <1>3, <2>1
  <2>3. r # D!Startup /\ r # D!Periodic
    BY DEF D!Startup, D!Periodic
  <2>4. scan \in ScanRecord
    BY <1>4, <2>1, <2>2
  <2> HIDE DEF r, scan
  <2>5. /\ scans' \in [D!Scanners -> {D!NoScan} \cup ScanRecord]
        /\ scans'[D!Startup] = scans[D!Startup] /\ scans'[D!Periodic] = scans[D!Periodic]
    BY <1>3, <2>1, <2>3, <2>4
  <2>6. \A s \in D!Scanners : D!Scanning(s)' => scans'[s] \in ScanRecord
    BY <2>5 DEF D!Scanning
  <2>7. (D!Scanning(D!Startup)' <=> D!Scanning(D!Startup)) /\ (D!Scanning(D!Periodic)' <=> D!Scanning(D!Periodic))
    BY <2>5 DEF D!Scanning
  <2>8. Typed'
    BY <1>1, <2>1, <2>2, <2>5, <2>6, <2>7 DEF IInv, Typed, D!TypeOK, ScanRecord
  <2> QED
    BY <1>2, <2>8 DEF IInv
<1>7. CASE D!Reload
  <2>1. UNCHANGED <<loop, scans>> /\ \E d \in SUBSET Addresses : config' = d /\ reloads' = Append(reloads, d)
    BY <1>7 DEF D!Reload, D!daemonVars
  <2>2. reloads' \in Seq(SUBSET Addresses) /\ config' \in SUBSET Addresses
    BY <1>3, <2>1
  <2>3. Typed'
    BY <1>1, <2>1, <2>2 DEF IInv, Typed, D!TypeOK, D!Scanning
  <2> QED
    BY <1>2, <2>3 DEF IInv
<1> QED
  BY <1>5, <1>6, <1>7

\* A command is put where one task has the device at most.
LEMMA CommandInv ==
  ASSUME IInv, D!CheckStatus \/ D!PutCommand \/ D!Dispatch
  PROVE  IInv'
<1>1. UNCHANGED <<phase, loop, awaited, config, reloads, reloaded, scans, statuses, devices, handlers, tasks>>
  BY DEF D!CheckStatus, D!PutCommand, D!Dispatch, D!daemonVars, D!configVars, D!managerVars
<1>2. requests \in Seq(SUBSET DOMAIN tasks) /\ api \in Addresses \cup {"idle"}
  BY DEF IInv, Typed, D!TypeOK
<1>3. DOMAIN requests = 1..Len(requests) /\ Len(requests) \in Nat
  BY <1>2
<1>4. requests' \in Seq(SUBSET DOMAIN tasks) /\ api' \in Addresses \cup {"idle"} /\ D!OneTaker'
  <2>1. CASE D!CheckStatus
    BY <1>2, <2>1 DEF D!CheckStatus, IInv, D!OneTaker
  <2>2. CASE D!Dispatch
    <3>1. requests # <<>> /\ requests' = Tail(requests) /\ api' = api
      BY <2>2 DEF D!Dispatch
    <3>2. /\ requests' \in Seq(SUBSET DOMAIN tasks) /\ DOMAIN requests' = 1..Len(requests) - 1
          /\ \A i \in 1..Len(requests) - 1 : requests'[i] = requests[i + 1] /\ i + 1 \in DOMAIN requests
      BY <1>2, <1>3, <3>1
    <3>3. D!OneTaker'
      BY <3>2 DEF IInv, D!OneTaker
    <3> QED
      BY <1>2, <3>1, <3>2, <3>3
  <2>3. CASE D!PutCommand
    <3> DEFINE takers == {t \in DOMAIN tasks : tasks[t].addr = api /\ tasks[t].current}
    <3>1. api' = "idle" /\ requests' \in {requests, Append(requests, takers)}
      BY <2>3 DEF D!PutCommand
    <3>2. Cardinality(takers) <= 1
      <4>1. \A t, u \in takers : t = u
        BY DEF IInv, OneCurrent
      <4>2. CASE takers = {}
        BY <4>2, FS_EmptySet
      <4>3. CASE takers # {}
        <5>1. PICK t \in takers : takers = {t}
          BY <4>1, <4>3
        <5>2. Cardinality({t}) = 1
          BY FS_Singleton
        <5> QED
          BY <5>1, <5>2
      <4> QED
        BY <4>2, <4>3
    <3>3. takers \in SUBSET DOMAIN tasks
      OBVIOUS
    <3> HIDE DEF takers
    <3>4. CASE requests' = requests
      BY <1>2, <3>1, <3>4 DEF IInv, D!OneTaker
    <3>5. CASE requests' = Append(requests, takers)
      <4>1. /\ requests' \in Seq(SUBSET DOMAIN tasks) /\ DOMAIN requests' = 1..Len(requests) + 1
            /\ \A i \in 1..Len(requests) : requests'[i] = requests[i]
            /\ requests'[Len(requests) + 1] = takers
        BY <1>2, <3>3, <3>5
      <4>2. ASSUME NEW i \in DOMAIN requests' PROVE Cardinality(requests'[i]) <= 1
        <5>1. i \in 1..Len(requests) \/ i = Len(requests) + 1
          BY <1>3, <4>1
        <5>2. CASE i \in 1..Len(requests)
          BY <1>3, <4>1, <5>2, OneTakerMeans DEF IInv
        <5>3. CASE i = Len(requests) + 1
          BY <3>2, <4>1, <5>3
        <5> QED
          BY <5>1, <5>2, <5>3
      <4>3. D!OneTaker'
        <5>1. \A some : D!Cardinality(some) = Cardinality(some)
          BY DEF Cardinality, D!Cardinality
        <5> QED
          BY <4>2, <5>1, Zenon DEF D!OneTaker
      <4> QED
        BY <3>1, <4>1, <4>3
    <3> QED
      BY <3>1, <3>4, <3>5
  <2> QED
    BY <2>1, <2>2, <2>3
<1>5. Typed'
  BY <1>1, <1>4 DEF IInv, Typed, D!TypeOK, D!Scanning
<1> QED
  BY <1>1, <1>4, <1>5 DEF IInv, D!HandlersOwned, OneCurrent

\* The daemon stops: the tasks are cancelled, waited for and forgotten.
LEMMA ShutdownInv ==
  ASSUME IInv, D!StopHandlers \/ D!Shutdown
  PROVE  IInv'
<1>1. UNCHANGED <<config, reloaded, statuses, requests, accepted, dropped>>
  BY DEF D!StopHandlers, D!Shutdown, D!Forget, D!CloseLoop, D!Exit, D!configVars, D!managerVars, D!commandVars
<1>2. D!OneTaker'
  BY <1>1 DEF IInv, D!OneTaker
<1>3. /\ scans \in [D!Scanners -> {D!NoScan} \cup ScanRecord] /\ D!Startup \in D!Scanners /\ D!Periodic \in D!Scanners
      /\ D!Startup # D!Periodic
  BY DEF IInv, Typed, D!Scanners, D!Startup, D!Periodic
<1>4. CASE D!StopHandlers
  <2>1. /\ UNCHANGED <<loop, reloads, devices, handlers, api>> /\ phase = "run" /\ phase' = "stopping"
        /\ tasks' = D!CancelAll(handlers) /\ awaited' = handlers /\ D!Watch(tasks')
    BY <1>4 DEF D!StopHandlers, D!configVars, D!managerVars, D!commandVars
  <2>2. /\ scans' \in [D!Scanners -> {D!NoScan} \cup ScanRecord]
        /\ \A s \in D!Scanners : D!Scanning(s)' <=> D!Scanning(s)
    BY <2>1, WatchFacts
  <2>3. \A s \in D!Scanners : D!Scanning(s)' => scans'[s] \in ScanRecord
    BY <2>2 DEF D!Scanning
  <2>4. /\ tasks' \in Seq(D!Task) /\ handlers \cup awaited \subseteq DOMAIN tasks'
        /\ requests \in Seq(SUBSET DOMAIN tasks') /\ OneCurrent'
    BY <2>1, CancelAllFacts, TasksKeep, TasksTyped
  <2>5. ~D!Scanning(D!Startup)
    BY <2>1 DEF IInv, Typed
  <2>6. Typed'
    BY <1>1, <1>3, <2>1, <2>2, <2>3, <2>4, <2>5 DEF IInv, Typed, D!TypeOK, ScanRecord
  <2>7. D!HandlersOwned'
    BY <2>1 DEF D!HandlersOwned
  <2> QED
    BY <1>2, <2>4, <2>6, <2>7 DEF IInv
<1>5. CASE D!Forget
  <2>1. /\ UNCHANGED <<reloads, api, awaited>> /\ phase = "stopping" /\ phase' = "closing"
        /\ handlers' = {} /\ devices' = {} /\ loop' = "ended" /\ scans' = [scans EXCEPT ![D!Periodic] = D!NoScan]
        /\ tasks' = [t \in DOMAIN tasks |-> [tasks[t] EXCEPT !.current = FALSE]]
    BY <1>5 DEF D!Forget, D!configVars, D!commandVars
  <2>2. /\ scans' \in [D!Scanners -> {D!NoScan} \cup ScanRecord] /\ ~D!Scanning(D!Periodic)'
        /\ D!Scanning(D!Startup)' <=> D!Scanning(D!Startup)
    BY <1>3, <2>1 DEF D!Scanning
  <2>3. \A s \in D!Scanners : D!Scanning(s)' => scans'[s] \in ScanRecord
    BY <2>2 DEF D!Scanning
  <2>4. /\ tasks' \in Seq(D!Task) /\ handlers \cup awaited \subseteq DOMAIN tasks'
        /\ requests \in Seq(SUBSET DOMAIN tasks') /\ OneCurrent'
    BY <2>1, ForgottenFacts, TasksKeep, TasksTyped
  <2>5. ~D!Scanning(D!Startup)
    BY <2>1 DEF IInv, Typed
  <2>6. Typed'
    BY <1>1, <2>1, <2>2, <2>3, <2>4, <2>5 DEF IInv, Typed, D!TypeOK, ScanRecord
  <2>7. D!HandlersOwned'
    BY <2>1 DEF D!HandlersOwned
  <2> QED
    BY <1>2, <2>4, <2>6, <2>7 DEF IInv
<1>6. CASE D!CloseLoop
  <2>1. /\ UNCHANGED <<loop, awaited, devices, handlers>> /\ phase = "closing" /\ phase' = "exiting"
        /\ tasks' = D!CancelAll(DOMAIN tasks) /\ scans' = [s \in D!Scanners |-> D!NoScan]
        /\ reloads' = <<>> /\ api' = "idle"
    BY <1>6 DEF D!CloseLoop, D!managerVars
  <2>2. /\ scans' \in [D!Scanners -> {D!NoScan} \cup ScanRecord] /\ \A s \in D!Scanners : ~D!Scanning(s)'
    BY <2>1 DEF D!Scanning
  <2>3. /\ tasks' \in Seq(D!Task) /\ handlers \cup awaited \subseteq DOMAIN tasks'
        /\ requests \in Seq(SUBSET DOMAIN tasks') /\ OneCurrent'
    BY <2>1, CancelAllFacts, TasksKeep, TasksTyped
  <2>4. loop = "ended" /\ reloads' \in Seq(SUBSET Addresses)
    BY <2>1 DEF IInv, Typed
  <2>5. Typed'
    BY <1>1, <1>3, <2>1, <2>2, <2>3, <2>4 DEF IInv, Typed, D!TypeOK, ScanRecord
  <2>6. D!HandlersOwned'
    BY <2>1 DEF D!HandlersOwned
  <2> QED
    BY <1>2, <2>3, <2>5, <2>6 DEF IInv
<1>7. CASE D!Exit
  <2>1. /\ UNCHANGED <<loop, awaited, reloads, scans, devices, handlers, tasks, api>>
        /\ phase = "exiting" /\ phase' = "exited"
    BY <1>7 DEF D!Exit, D!configVars, D!managerVars, D!commandVars
  <2>2. Typed'
    BY <1>1, <2>1 DEF IInv, Typed, D!TypeOK, D!Scanning
  <2> QED
    BY <1>2, <2>1, <2>2 DEF IInv, OneCurrent, D!HandlersOwned
<1> QED
  BY <1>4, <1>5, <1>6, <1>7 DEF D!Shutdown

-----------------------------------------------------------------------------
(* The theorems.                                                           *)

\* The invariant holds in every state.
LEMMA ManagerInv == Spec => []IInv
<1>1. Init => IInv
  BY InitInv DEF Init
<1>2. IInv /\ [D!Next]_D!vars => IInv'
  <2> SUFFICES ASSUME IInv, [D!Next]_D!vars PROVE IInv'
    OBVIOUS
  <2>1. CASE UNCHANGED D!vars
    <3>1. UNCHANGED <<phase, loop, awaited, config, reloads, reloaded, scans, statuses, devices, handlers,
                      tasks, api, requests, accepted, dropped>>
      BY <2>1 DEF D!vars, D!daemonVars, D!configVars, D!managerVars, D!commandVars
    <3> QED
      BY <3>1 DEF IInv, Typed, D!TypeOK, D!Scanning, D!HandlersOwned, OneCurrent, D!OneTaker
  <2>2. CASE D!Manager \/ D!Reload
    BY <2>2, ReconciledInv, ScanStartInv DEF D!Manager
  <2>3. CASE D!CheckStatus \/ D!PutCommand \/ D!Dispatch
    BY <2>3, CommandInv
  <2>4. CASE D!StopHandlers \/ D!Shutdown
    BY <2>4, ShutdownInv
  <2>5. ASSUME NEW t \in DOMAIN tasks, D!LinkUp(t) \/ D!LinkDown(t) \/ D!Crash(t) \/ D!Left(t)
        PROVE  IInv'
    BY <2>5, LinkInv
  <2> QED
    BY <2>1, <2>2, <2>3, <2>4, <2>5 DEF D!Next
<1> QED
  BY <1>1, <1>2, ManagerMoves, PTL DEF Spec

\* Scans, tasks, handlers and commands keep their types for any set of devices.
THEOREM ManagerTypeOK == Spec => []ManagerTyped
<1>1. IInv => ManagerTyped
  BY DEF IInv, Typed, ManagerTyped
<1> QED
  BY <1>1, ManagerInv, PTL

\* Until the shutdown every handler that has not been cancelled is in _handlers, one for
\* each device at most, however many reconciles are under way.
THEOREM ManagerHandlersOwned == Spec => []HandlersOwned
<1>1. IInv => HandlersOwned
  BY DEF IInv, HandlersOwned
<1> QED
  BY <1>1, ManagerInv, PTL

\* A command is taken by one handler at most.
THEOREM ManagerOneTaker == Spec => []OneTaker
<1>1. IInv => OneTaker
  BY DEF IInv, OneTaker
<1> QED
  BY <1>1, ManagerInv, PTL
=============================================================================
