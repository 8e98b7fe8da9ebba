--------------------------- MODULE ApiToolsProofs ---------------------------
(***************************************************************************)
(* Proofs of StaleTold, RateBounded, EnergyOfTheLog, NeverBack and         *)
(* ShowsTheStore, for any sessions, devices, addresses, config commands    *)
(* and loads, and any limits, windows, intervals and retries.              *)
(***************************************************************************)
EXTENDS MCApiTools, FiniteSetTheorems, SequenceTheorems, TLAPS

\* A step is one of one part, and leaves the others as they are.
LEMMA OneOfTheParts ==
  ASSUME [Next]_vars
  PROVE  [S!Next]_S!vars /\ [G!Next]_G!vars /\ [C!Next]_C!vars /\ [L!Next]_L!vars
<1>1. [S!Next]_S!vars
  BY DEF Next, vars, sessions, guard, config, load, S!vars, S!busVars, S!sessionVars, S!clientVars
<1>2. [G!Next]_G!vars
  BY DEF Next, vars, sessions, guard, config, load, G!vars
<1>3. [C!Next]_C!vars
  BY DEF Next, vars, sessions, guard, config, load, C!vars, C!paths, C!editorVars, C!daemonVars
<1>4. [L!Next]_L!vars
  BY DEF Next, vars, sessions, guard, config, load, L!vars, L!readings
<1> QED
  BY <1>1, <1>2, <1>3, <1>4

-----------------------------------------------------------------------------
(* ConfigFile.                                                             *)

CommandPlaces == {"idle", "loaded", "writing", "reloading"}

FileTyped ==
  /\ given \in BOOLEAN /\ others \in [{"first", "last"} -> C!Texts]
  /\ file \in C!Texts /\ force \in C!Values
  /\ doing \in [Editors -> CommandPlaces]
  /\ draft \in [Editors -> C!Texts]

\* What the daemon runs with is what a document says, but for what goes unnoticed.
Runs(doc) ==
  /\ force.listen = doc.set.listen
  /\ force.interval = doc.set.interval /\ force.devices = doc.set.devices
  /\ force.api_key = doc.set.api_key \/ "api_key" \in C!Unnoticed

\* While commands are under way, one that has written the last difference has still
\* to ask for its reload.
TellingOwed ==
  C!Readable(C!Source) /\ force # C!Down =>
    told # {} \/ Runs(C!Source) \/ \E e \in Editors : doing[e] = "reloading"

FileInv == FileTyped /\ TellingOwed

LEMMA DownTyped == C!Down \in C!Values
BY DEF C!Down, C!Values

LEMMA NoDocumentTyped ==
  ASSUME NEW why \in {"no file", "empty", "garbled"}
  PROVE  C!NoDocument(why) \in C!Texts
BY DownTyped DEF C!NoDocument, C!Texts

\* The files as an administrator wrote them are documents.
LEMMA WrittenTyped == C!Written \in C!Texts /\ C!Elsewhere \in C!Texts
<1>1. C!ServerConfig \in C!Values
  BY DownTyped DEF C!ServerConfig, C!Values
<1> DEFINE one == [C!ServerConfig EXCEPT !.api_key = 1]
           two == [C!ServerConfig EXCEPT !.api_key = 2, !.interval = 2]
<1>2. one \in C!Values
  BY <1>1 DEF C!Values
<1>3. two \in C!Values
  <2>1. two = [one EXCEPT !.api_key = 2, !.interval = 2]
    BY <1>1 DEF C!Values
  <2> HIDE DEF one, two
  <2>2. 2 \in 0..2 /\ 2 \in 1..2
    OBVIOUS
  <2> QED
    BY <2>1, <2>2, <1>2 DEF C!Values
<1>4. /\ C!Written = [text |-> "yaml", set |-> one, watchdog |-> TRUE]
      /\ C!Elsewhere = [text |-> "yaml", set |-> two, watchdog |-> TRUE]
  BY DEF C!Written, C!Elsewhere
<1> HIDE DEF one, two
<1> QED
  BY <1>2, <1>3, <1>4 DEF C!Texts

\* The files are there or are not, and the daemon is down.
LEMMA FileInit == C!Init => FileInv
<1> SUFFICES ASSUME C!Init PROVE FileInv
  OBVIOUS
<1>1. given \in BOOLEAN
  BY DEF C!Init
<1>2. file \in C!Texts
  BY WrittenTyped, NoDocumentTyped DEF C!Init
<1>3. others \in [{"first", "last"} -> C!Texts]
  <2>1. others \in [{"first", "last"} -> {C!NoDocument("no file"), C!Elsewhere}]
    BY DEF C!Init
  <2>2. {C!NoDocument("no file"), C!Elsewhere} \subseteq C!Texts
    BY WrittenTyped, NoDocumentTyped
  <2> QED
    BY <2>1, <2>2
<1>4. draft \in [Editors -> C!Texts]
  BY NoDocumentTyped DEF C!Init
<1>5. doing \in [Editors -> CommandPlaces]
  BY DEF C!Init, CommandPlaces
<1>6. force = C!Down
  BY DEF C!Init
<1> QED
  BY DownTyped, <1>1, <1>2, <1>3, <1>4, <1>5, <1>6 DEF FileInv, FileTyped, TellingOwed

\* The daemon starts with what it reads, and stops.
LEMMA DaemonStep ==
  ASSUME FileInv, C!Start \/ C!Stop
  PROVE  FileInv'
<1>1. /\ given' = given /\ others' = others /\ file' = file
      /\ doing' = doing /\ draft' = draft
  BY DEF C!Start, C!Stop, C!editorVars, C!paths
<1>2. C!Source' = C!Source
  BY <1>1 DEF C!Source, C!Found
<1>3. CASE C!Start
  <2>1. force' = C!Source.set
    BY <1>3 DEF C!Start
  <2>2. C!Source \in C!Texts
    BY DEF FileInv, FileTyped, C!Source, C!Found
  <2>3. force' \in C!Values /\ Runs(C!Source)'
    BY <2>1, <2>2, <1>2 DEF Runs, C!Texts
  <2> QED
    BY <1>1, <2>3 DEF FileInv, FileTyped, TellingOwed
<1>4. CASE C!Stop
  <2>1. force' = C!Down
    BY <1>4 DEF C!Stop
  <2> QED
    BY <1>1, <2>1, DownTyped DEF FileInv, FileTyped, TellingOwed
<1> QED
  BY <1>3, <1>4

\* The paths stay, and what is typed stays typed.
CommandTyped ==
  /\ UNCHANGED <<given, others>> /\ file' \in C!Texts
  /\ doing' \in [Editors -> CommandPlaces] /\ draft' \in [Editors -> C!Texts]

\* A command that neither changes what the daemon reads nor reloads leaves what
\* another owes.
LEMMA QuietStep ==
  ASSUME FileInv, CommandTyped, NEW e \in Editors, NEW place \in CommandPlaces, doing[e] # "reloading",
         doing' = [doing EXCEPT ![e] = place], UNCHANGED <<force, told>>,
         C!Source' = C!Source \/ ~C!Readable(C!Source')
  PROVE  FileInv'
<1>1. ASSUME NEW d \in Editors, doing[d] = "reloading"
      PROVE  doing'[d] = "reloading"
  BY <1>1 DEF FileInv, FileTyped
<1>2. "api_key" \in C!Unnoticed => "api_key" \in C!Unnoticed'
  BY DEF C!Unnoticed, CommandTyped
<1>3. TellingOwed'
  <2>1. CASE ~C!Readable(C!Source')
    BY <2>1 DEF TellingOwed
  <2>2. CASE C!Source' = C!Source
    <3>1. Runs(C!Source) => Runs(C!Source)'
      BY <2>2, <1>2 DEF Runs
    <3> QED
      BY <3>1, <2>2, <1>1 DEF FileInv, TellingOwed, C!Readable
  <2> QED
    BY <2>1, <2>2
<1> QED
  BY <1>3 DEF FileInv, FileTyped, CommandTyped

\* The end of a command.
LEMMA EndTyped ==
  ASSUME FileInv, NEW e \in Editors, C!End(e)
  PROVE  /\ doing' = [doing EXCEPT ![e] = "idle"] /\ doing' \in [Editors -> CommandPlaces]
         /\ draft' \in [Editors -> C!Texts]
BY NoDocumentTyped DEF C!End, FileInv, FileTyped, CommandPlaces

\* config set, add-device or remove-device reads the file and makes its change.
LEMMA EditStep ==
  ASSUME FileInv, NEW e \in Editors, C!Load(e)
  PROVE  FileInv'
<1>1. /\ doing[e] = "idle" /\ doing' = [doing EXCEPT ![e] = "loaded"]
      /\ UNCHANGED <<given, others, file, force, told>>
  BY DEF C!Load, C!daemonVars, C!paths
<1>2. PICK new \in C!Values : draft' = [draft EXCEPT ![e] = [text |-> "yaml", set |-> new, watchdog |-> FALSE]]
  BY DEF C!Load
<1>3. CommandTyped
  BY <1>1, <1>2 DEF CommandTyped, CommandPlaces, FileInv, FileTyped, C!Texts
<1>4. C!Source' = C!Source
  BY <1>1 DEF C!Source, C!Found
<1> QED
  BY <1>1, <1>3, <1>4, QuietStep DEF CommandPlaces

\* It opens the file, which is empty then, or is ended by what it reads in it.
LEMMA OpenFileStep ==
  ASSUME FileInv, NEW e \in Editors, C!OpenFile(e)
  PROVE  FileInv'
<1>1. doing[e] = "loaded" /\ UNCHANGED <<given, others, force, told>>
  BY DEF C!OpenFile, C!daemonVars, C!paths
<1>2. CASE file.text = "garbled"
  <2>1. C!End(e) /\ file' = file
    BY <1>2 DEF C!OpenFile
  <2>2. CommandTyped
    BY <1>1, <2>1, EndTyped DEF CommandTyped, FileInv, FileTyped
  <2>3. C!Source' = C!Source
    BY <1>1, <2>1 DEF C!Source, C!Found
  <2> QED
    BY <1>1, <2>1, <2>2, <2>3, EndTyped, QuietStep DEF CommandPlaces
<1>3. CASE file.text # "garbled"
  <2>1. /\ doing' = [doing EXCEPT ![e] = "writing"] /\ file' = C!NoDocument("empty")
        /\ draft' = [draft EXCEPT ![e].watchdog = file.watchdog]
    BY <1>3 DEF C!OpenFile
  <2>2. CommandTyped
    BY <1>1, <2>1, NoDocumentTyped DEF CommandTyped, CommandPlaces, FileInv, FileTyped, C!Texts
  <2>3. C!Source' = C!Source \/ C!Source' = file'
    <3>1. file'.text # "no file"
      BY <2>1 DEF C!NoDocument
    <3> QED
      BY <1>1, <3>1 DEF C!Source, C!Found
  <2>4. ~C!Readable(file')
    BY <2>1 DEF C!Readable, C!NoDocument
  <2> QED
    BY <1>1, <2>1, <2>2, <2>3, <2>4, QuietStep DEF CommandPlaces
<1> QED
  BY <1>2, <1>3

\* It writes, and tells that a restart is due or goes on to ask for the reload.
LEMMA DumpStep ==
  ASSUME FileInv, NEW e \in Editors, C!Dump(e)
  PROVE  FileInv'
<1>1. file' \in {draft[e], C!NoDocument("garbled")} /\ UNCHANGED <<given, others, force>>
  BY DEF C!Dump, C!daemonVars, C!paths
<1>2. file' \in C!Texts
  BY <1>1, NoDocumentTyped DEF FileInv, FileTyped
<1>3. CASE C!RestartRequired(edit[e])
  <2>1. C!End(e) /\ told' # {}
    BY <1>3 DEF C!Dump
  <2> QED
    BY <1>1, <1>2, <2>1, EndTyped DEF FileInv, FileTyped, TellingOwed
<1>4. CASE ~C!RestartRequired(edit[e])
  <2>1. doing' = [doing EXCEPT ![e] = "reloading"] /\ draft' = draft
    BY <1>4 DEF C!Dump
  <2>2. doing' \in [Editors -> CommandPlaces] /\ doing'[e] = "reloading"
    BY <2>1 DEF FileInv, FileTyped, CommandPlaces
  <2> QED
    BY <1>1, <1>2, <2>1, <2>2 DEF FileInv, FileTyped, TellingOwed
<1> QED
  BY <1>3, <1>4

\* The daemon applies what the file says, and where it does not the command tells.
LEMMA AnsweredStep ==
  ASSUME FileInv, NEW e \in Editors, C!Answered(e)
  PROVE  FileInv'
<1>1. C!End(e) /\ UNCHANGED <<given, others, file>>
  BY DEF C!Answered, C!paths
<1>2. PICK key \in C!Discovered :
        IF C!Refused(key) \/ C!restart_reasons
        THEN told' \in {told \cup {"restart due"}, told \cup {"traceback"}} /\ UNCHANGED force
        ELSE told' \in {told, told \cup {"traceback"}} /\ force' = C!Applied
  BY DEF C!Answered
<1>3. CASE C!Refused(key) \/ C!restart_reasons
  <2>1. told' # {} /\ force' = force
    BY <1>2, <1>3
  <2> QED
    BY <1>1, <2>1, EndTyped DEF FileInv, FileTyped, TellingOwed
<1>4. CASE ~C!Refused(key) /\ ~C!restart_reasons
  <2>1. force' = C!Applied
    BY <1>2, <1>4
  <2>2. given /\ C!Readable(file) /\ key = force.api_key /\ file.set.listen = force.listen
    BY <1>4 DEF C!Refused, C!restart_reasons
  <2>3. force' \in C!Values
    BY <2>1 DEF C!Applied, FileInv, FileTyped, C!Texts, C!Values
  <2>4. C!Source' = file
    BY <1>1, <2>2 DEF C!Source
  <2>5. file.set.api_key = force.api_key \/ "api_key" \in C!Unnoticed'
    <3>1. CASE others.first.text # "no file"
      BY <1>1, <2>2, <3>1 DEF C!Unnoticed
    <3>2. CASE others.first.text = "no file"
      <4>1. C!Found = file /\ file.text # "no file"
        BY <2>2, <3>2 DEF C!Found, C!Readable
      <4> QED
        BY <2>2, <4>1 DEF C!Discovered
    <3> QED
      BY <3>1, <3>2
  <2>6. /\ force'.listen = force.listen /\ force'.api_key = force.api_key
        /\ force'.interval = file.set.interval /\ force'.devices = file.set.devices
    BY <2>1 DEF C!Applied, FileInv, FileTyped, C!Values
  <2>7. Runs(C!Source)'
    BY <2>2, <2>4, <2>5, <2>6 DEF Runs
  <2> QED
    BY <1>1, <2>3, <2>7, EndTyped DEF FileInv, FileTyped, TellingOwed
<1> QED
  BY <1>3, <1>4

\* A config command reads, opens, writes, fails to or asks for the reload.
LEMMA CommandStep ==
  ASSUME FileInv, NEW e \in Editors, C!Command(e)
  PROVE  FileInv'
<1>1. CASE C!WriteFails(e)
  <2>1. doing[e] = "writing" /\ C!End(e) /\ UNCHANGED <<given, others, file, force, told>>
    BY <1>1 DEF C!WriteFails, C!daemonVars, C!paths
  <2>2. CommandTyped
    BY <2>1, EndTyped DEF CommandTyped, FileInv, FileTyped
  <2>3. C!Source' = C!Source
    BY <2>1 DEF C!Source, C!Found
  <2> QED
    BY <2>1, <2>2, <2>3, EndTyped, QuietStep DEF CommandPlaces
<1>2. CASE C!NotReached(e)
  <2>1. C!End(e) /\ told' # {} /\ UNCHANGED <<given, others, file, force>>
    BY <1>2 DEF C!NotReached, C!daemonVars, C!paths
  <2> QED
    BY <2>1, EndTyped DEF FileInv, FileTyped, TellingOwed
<1> QED
  BY <1>1, <1>2, EditStep, OpenFileStep, DumpStep, AnsweredStep DEF C!Command

\* With no command under way nothing is owed any more.
LEMMA FileTold == FileInv => C!StaleTold
BY DEF FileInv, FileTyped, TellingOwed, Runs, C!StaleTold, C!Keys, C!Unnoticed

\* When no config command is under way, a running daemon and the file it would load
\* now differ, but for mdns and for a key nobody could notice, only if a command has
\* told the operator to restart or has ended in a traceback: however many commands
\* overlap, fail or are refused, and whichever files the search path has.
THEOREM ApiStaleTold == Spec => []StaleTold
<1>1. Init => FileInv
  BY FileInit DEF Init
<1>2. FileInv /\ [C!Next]_C!vars => FileInv'
  <2> SUFFICES ASSUME FileInv, [C!Next]_C!vars PROVE FileInv'
    OBVIOUS
  <2>1. CASE UNCHANGED C!vars
    <3>1. UNCHANGED <<given, others, file, doing, draft, force, told>>
      BY <2>1 DEF C!vars, C!paths, C!editorVars, C!daemonVars
    <3>2. C!Source' = C!Source /\ C!Unnoticed' = C!Unnoticed
      BY <3>1 DEF C!Source, C!Found, C!Unnoticed
    <3>3. Runs(C!Source)' = Runs(C!Source) /\ C!Readable(C!Source)' = C!Readable(C!Source)
      BY <3>1, <3>2 DEF Runs, C!Readable
    <3> QED
      BY <3>1, <3>3 DEF FileInv, FileTyped, TellingOwed
  <2>2. CASE C!Start \/ C!Stop
    BY <2>2, DaemonStep
  <2>3. ASSUME NEW e \in Editors, C!Command(e) PROVE FileInv'
    BY <2>3, CommandStep
  <2> QED
    BY <2>1, <2>2, <2>3 DEF C!Next
<1>3. [Next]_vars => [C!Next]_C!vars
  BY OneOfTheParts
<1>4. FileInv => StaleTold
  BY FileTold DEF StaleTold
<1> QED
  BY <1>1, <1>2, <1>3, <1>4, PTL DEF Spec

-----------------------------------------------------------------------------
(* ApiGuard.                                                               *)

\* The requests of p from t on, and before u.
Between(p, t, u) == {i \in DOMAIN p : t <= p[i] /\ p[i] < u}

\* The requests p of an address at z, when c of them are counted since s.
Windowed(p, s, c, z) ==
  /\ s <= z /\ c <= Limit
  /\ \A i \in DOMAIN p : p[i] <= z /\ p[i] < s + Window
  /\ Cardinality(Between(p, s, z + 1)) <= c
  /\ \A t \in Nat : t + Window > s => Cardinality(Between(p, t, s)) <= Limit
  /\ \A t \in Nat : Cardinality(Between(p, t, t + Window)) <= 2 * Limit

\* The window of an address that has no record has not begun.
Since(a) == IF a \in DOMAIN rate THEN rate[a].start ELSE time

Counted(a) == IF a \in DOMAIN rate THEN rate[a].count ELSE 0

GuardTyped ==
  /\ time \in Nat /\ passes \in [Addresses -> Seq(Nat)]
  /\ DOMAIN rate \subseteq Addresses /\ rate \in [DOMAIN rate -> [count : Nat, start : Nat]]

GuardInv == GuardTyped /\ \A a \in Addresses : Windowed(passes[a], Since(a), Counted(a), time)

-----------------------------------------------------------------------------
(* The requests of a stretch of time.                                      *)

\* They are finitely many, and no more than those of a larger stretch.
LEMMA BetweenFinite ==
  ASSUME NEW p \in Seq(Nat), NEW t, NEW u
  PROVE  IsFiniteSet(Between(p, t, u)) /\ Cardinality(Between(p, t, u)) \in Nat
<1>1. IsFiniteSet(1..Len(p))
  BY FS_Interval
<1>2. Between(p, t, u) \subseteq 1..Len(p)
  BY DEF Between
<1>3. IsFiniteSet(Between(p, t, u))
  BY <1>1, <1>2, FS_Subset
<1> QED
  BY <1>3, FS_CardinalityType

\* A stretch in which all the requests of another are has no fewer.
LEMMA BetweenFewer ==
  ASSUME NEW p \in Seq(Nat), NEW t, NEW u, NEW v, NEW w,
         Between(p, t, u) \subseteq Between(p, v, w)
  PROVE  Cardinality(Between(p, t, u)) <= Cardinality(Between(p, v, w))
BY BetweenFinite, FS_Subset

\* A stretch in two parts.
LEMMA BetweenSplit ==
  ASSUME NEW p \in Seq(Nat), NEW t \in Nat, NEW m \in Nat, NEW u \in Nat
  PROVE  Cardinality(Between(p, t, u)) <= Cardinality(Between(p, t, m)) + Cardinality(Between(p, m, u))
<1> DEFINE all == Between(p, t, u)
           first == Between(p, t, m)
           second == Between(p, m, u)
<1>1. all \subseteq first \cup second
  BY DEF Between
<1>2. /\ IsFiniteSet(first) /\ IsFiniteSet(second) /\ IsFiniteSet(all)
      /\ Cardinality(first) \in Nat /\ Cardinality(second) \in Nat /\ Cardinality(all) \in Nat
  BY BetweenFinite
<1> HIDE DEF all, first, second
<1>3. /\ IsFiniteSet(first \cup second)
      /\ Cardinality(first \cup second) = Cardinality(first) + Cardinality(second) - Cardinality(first \cap second)
  BY <1>2, FS_Union
<1>4. IsFiniteSet(first \cap second)
  <2>1. first \cap second \in SUBSET first
    OBVIOUS
  <2> QED
    BY <1>2, <2>1, FS_Subset
<1>5. Cardinality(first \cap second) \in Nat
  BY <1>4, FS_CardinalityType
<1>6. Cardinality(all) <= Cardinality(first \cup second)
  BY <1>1, <1>3, FS_Subset
<1>7. Cardinality(first \cup second) \in Nat
  BY <1>3, FS_CardinalityType
<1>8. Cardinality(all) <= Cardinality(first) + Cardinality(second)
  BY <1>2, <1>3, <1>5, <1>6, <1>7
<1> QED
  BY <1>8 DEF all, first, second

\* One request more, in the stretch or out of it.
LEMMA BetweenAppend ==
  ASSUME NEW p \in Seq(Nat), NEW x \in Nat, NEW t \in Nat, NEW u \in Nat
  PROVE  /\ Cardinality(Between(Append(p, x), t, u)) <= Cardinality(Between(p, t, u)) + 1
         /\ ~(t <= x /\ x < u) => Between(Append(p, x), t, u) = Between(p, t, u)
<1>1. PICK n \in Nat : n = Len(p)
  OBVIOUS
<1>2. /\ DOMAIN p = 1..n /\ DOMAIN Append(p, x) = 1..(n + 1) /\ Append(p, x)[n + 1] = x
      /\ \A i \in 1..n : Append(p, x)[i] = p[i]
  BY <1>1
<1>3. Between(Append(p, x), t, u) = Between(p, t, u) \cup {i \in {n + 1} : t <= x /\ x < u}
  BY <1>1, <1>2 DEF Between
<1>4. CASE t <= x /\ x < u
  <2>1. Between(Append(p, x), t, u) = Between(p, t, u) \cup {n + 1}
    BY <1>3, <1>4
  <2>2. IsFiniteSet(Between(p, t, u)) /\ Cardinality(Between(p, t, u)) \in Nat
    BY BetweenFinite
  <2>3. Cardinality(Between(p, t, u) \cup {n + 1}) \in {Cardinality(Between(p, t, u)), Cardinality(Between(p, t, u)) + 1}
    BY <2>2, FS_AddElement
  <2> QED
    BY <1>4, <2>1, <2>2, <2>3
<1>5. CASE ~(t <= x /\ x < u)
  <2>1. Between(Append(p, x), t, u) = Between(p, t, u)
    BY <1>3, <1>5
  <2> QED
    BY <2>1, BetweenFinite
<1> QED
  BY <1>4, <1>5

-----------------------------------------------------------------------------
(* The requests of one address.                                            *)

\* A window that has gone is as good as none: it counts nothing any more.
LEMMA WindowLapses ==
  ASSUME G!GuardAssumption, NEW p \in Seq(Nat), NEW s \in Nat, NEW c \in Nat, NEW z \in Nat,
         Windowed(p, s, c, z), s + Window <= z
  PROVE  Windowed(p, z, 0, z)
<1>1. Window \in Nat \ {0} /\ Limit \in Nat \ {0}
  BY DEF G!GuardAssumption
<1>2. \A i \in DOMAIN p : p[i] \in Nat /\ p[i] < s + Window
  BY DEF Windowed
<1>3. Cardinality(Between(p, z, z + 1)) <= 0
  <2>1. Between(p, z, z + 1) = {}
    BY <1>1, <1>2 DEF Between
  <2> QED
    BY <2>1, FS_EmptySet
<1>4. ASSUME NEW t \in Nat, t + Window > z PROVE Cardinality(Between(p, t, z)) <= Limit
  <2>1. t > s
    BY <1>1, <1>4
  <2>2. Between(p, t, z) \subseteq Between(p, s, z + 1)
    BY <1>2, <2>1 DEF Between
  <2>3. Cardinality(Between(p, t, z)) <= Cardinality(Between(p, s, z + 1))
    BY <2>2, BetweenFewer
  <2>4. Cardinality(Between(p, s, z + 1)) <= c /\ c <= Limit
    BY DEF Windowed
  <2>5. Cardinality(Between(p, t, z)) \in Nat /\ Cardinality(Between(p, s, z + 1)) \in Nat
    BY BetweenFinite
  <2> QED
    BY <1>1, <2>3, <2>4, <2>5
<1>5. \A i \in DOMAIN p : p[i] <= z /\ p[i] < z + Window
  BY <1>1, <1>2
<1>6. \A t \in Nat : Cardinality(Between(p, t, t + Window)) <= 2 * Limit
  BY DEF Windowed
<1> QED
  BY <1>1, <1>3, <1>4, <1>5, <1>6 DEF Windowed

\* Time goes on, for a window that counts and for an address without one.
LEMMA WindowAges ==
  ASSUME G!GuardAssumption, NEW p \in Seq(Nat), NEW s \in Nat, NEW c \in Nat, NEW z \in Nat,
         Windowed(p, s, c, z)
  PROVE  /\ Windowed(p, s, c, z + 1)
         /\ s = z /\ c = 0 => Windowed(p, z + 1, 0, z + 1)
<1>1. Window \in Nat \ {0} /\ Limit \in Nat \ {0}
  BY DEF G!GuardAssumption
<1>2. \A i \in DOMAIN p : p[i] \in Nat /\ p[i] <= z /\ p[i] < s + Window
  BY DEF Windowed
<1>3. Between(p, s, z + 1 + 1) = Between(p, s, z + 1)
  BY <1>2 DEF Between
<1>4. Windowed(p, s, c, z + 1)
  BY <1>2, <1>3 DEF Windowed
<1>5. ASSUME s = z, c = 0 PROVE Windowed(p, z + 1, 0, z + 1)
  <2>1. Cardinality(Between(p, z + 1, z + 1 + 1)) <= 0
    <3>1. Between(p, z + 1, z + 1 + 1) = {}
      BY <1>2 DEF Between
    <3>2. Cardinality(Between(p, z + 1, z + 1 + 1)) = 0
      BY <3>1, FS_EmptySet
    <3> QED
      BY <3>2
  <2>2. Between(p, z, z + 1) = {}
    <3>1. Cardinality(Between(p, z, z + 1)) <= 0
      BY <1>5 DEF Windowed
    <3>2. IsFiniteSet(Between(p, z, z + 1)) /\ Cardinality(Between(p, z, z + 1)) \in Nat
      BY BetweenFinite
    <3>3. Cardinality(Between(p, z, z + 1)) = 0
      BY <3>1, <3>2
    <3> QED
      BY <3>2, <3>3, FS_EmptySet
  <2>3. ASSUME NEW t \in Nat, t + Window > z + 1 PROVE Cardinality(Between(p, t, z + 1)) <= Limit
    <3>1. \A i \in DOMAIN p : p[i] # z
      BY <1>2, <2>2 DEF Between
    <3>2. Between(p, t, z + 1) = Between(p, t, z)
      BY <1>2, <3>1 DEF Between
    <3>3. t + Window > z
      BY <1>1, <2>3
    <3> QED
      BY <1>5, <3>2, <3>3 DEF Windowed
  <2>4. \A i \in DOMAIN p : p[i] <= z + 1 /\ p[i] < z + 1 + Window
    BY <1>1, <1>2
  <2> QED
    BY <1>1, <2>1, <2>3, <2>4 DEF Windowed
<1> QED
  BY <1>4, <1>5

\* A request that is counted: the stretches it is in begin in the window, or end with it.
LEMMA WindowCounts ==
  ASSUME G!GuardAssumption, NEW p \in Seq(Nat), NEW s \in Nat, NEW c \in Nat, NEW z \in Nat,
         Windowed(p, s, c, z), z < s + Window, c < Limit
  PROVE  Windowed(Append(p, z), s, c + 1, z)
<1> DEFINE q == Append(p, z)
<1>1. Window \in Nat \ {0} /\ Limit \in Nat \ {0}
  BY DEF G!GuardAssumption
<1>2. q \in Seq(Nat)
  OBVIOUS
<1>3. s <= z /\ \A i \in DOMAIN p : p[i] <= z /\ p[i] < s + Window
  BY DEF Windowed
<1>4. \A i \in DOMAIN q : q[i] \in Nat /\ q[i] <= z /\ q[i] < s + Window
  <2>1. PICK n \in Nat : n = Len(p)
    OBVIOUS
  <2>2. /\ DOMAIN p = 1..n /\ DOMAIN q = 1..(n + 1) /\ q[n + 1] = z
        /\ \A i \in 1..n : q[i] = p[i] /\ p[i] \in Nat
    BY <2>1
  <2> HIDE DEF q
  <2> QED
    BY <1>3, <2>2
<1>5. Cardinality(Between(q, s, z + 1)) <= c + 1
  <2>1. Cardinality(Between(q, s, z + 1)) <= Cardinality(Between(p, s, z + 1)) + 1
    BY BetweenAppend
  <2>2. Cardinality(Between(p, s, z + 1)) <= c
    BY DEF Windowed
  <2> HIDE DEF q
  <2> QED
    BY <1>2, <2>1, <2>2, BetweenFinite
<1>6. ASSUME NEW t \in Nat, t + Window > s PROVE Cardinality(Between(q, t, s)) <= Limit
  <2>1. Between(q, t, s) = Between(p, t, s)
    BY <1>3, BetweenAppend
  <2> QED
    BY <1>6, <2>1 DEF Windowed
<1>7. ASSUME NEW t \in Nat PROVE Cardinality(Between(q, t, t + Window)) <= 2 * Limit
  <2>1. CASE ~(t <= z /\ z < t + Window)
    <3>1. Between(q, t, t + Window) = Between(p, t, t + Window)
      BY <1>1, <2>1, BetweenAppend
    <3> QED
      BY <3>1 DEF Windowed
  <2>2. CASE t <= z /\ z < t + Window
    <3> HIDE DEF q
    <3>1. Between(q, t, t + Window) \subseteq Between(q, t, z + 1)
      BY <1>4 DEF Between
    <3>2. Cardinality(Between(q, t, t + Window)) <= Cardinality(Between(q, t, z + 1))
      BY <1>2, <3>1, BetweenFewer
    <3>3. Cardinality(Between(q, t, z + 1)) <= Cardinality(Between(q, t, s)) + Cardinality(Between(q, s, z + 1))
      BY <1>2, BetweenSplit
    <3>4. t + Window > s
      BY <1>1, <1>3, <2>2
    <3>5. Cardinality(Between(q, t, s)) <= Limit
      BY <1>6, <3>4
    <3>6. /\ Cardinality(Between(q, t, t + Window)) \in Nat /\ Cardinality(Between(q, t, z + 1)) \in Nat
          /\ Cardinality(Between(q, t, s)) \in Nat /\ Cardinality(Between(q, s, z + 1)) \in Nat
      BY <1>2, BetweenFinite
    <3> QED
      BY <1>1, <1>5, <3>2, <3>3, <3>5, <3>6
  <2> QED
    BY <2>1, <2>2
<1> HIDE DEF q
<1>8. Windowed(q, s, c + 1, z)
  BY <1>1, <1>3, <1>4, <1>5, <1>6, <1>7 DEF Windowed
<1> QED
  BY <1>8 DEF q

-----------------------------------------------------------------------------
(* The rate store.                                                         *)

\* No request has come.
LEMMA GuardInit ==
  ASSUME G!GuardAssumption, G!Init
  PROVE  GuardInv
<1>1. time = 0 /\ DOMAIN rate = {} /\ passes = [a \in Addresses |-> <<>>]
  BY DEF G!Init
<1>2. GuardTyped
  BY <1>1 DEF GuardTyped
<1>3. ASSUME NEW t \in Nat, NEW u \in Nat PROVE Between(<<>>, t, u) = {}
  BY DEF Between
<1>4. Window \in Nat \ {0} /\ Limit \in Nat \ {0}
  BY DEF G!GuardAssumption
<1>5. Windowed(<<>>, 0, 0, 0)
  <2>1. \A t \in Nat, u \in Nat : Cardinality(Between(<<>>, t, u)) = 0
    BY <1>3, FS_EmptySet
  <2>2. /\ Cardinality(Between(<<>>, 0, 0 + 1)) <= 0
        /\ \A t \in Nat : Cardinality(Between(<<>>, t, 0)) <= Limit
        /\ \A t \in Nat : Cardinality(Between(<<>>, t, t + Window)) <= 2 * Limit
    BY <1>4, <2>1
  <2> QED
    BY <1>4, <2>2 DEF Windowed
<1> QED
  BY <1>1, <1>2, <1>5 DEF GuardInv, Since, Counted

\* The sweep takes only windows that have gone.
LEMMA SweptIsLapsed ==
  ASSUME G!GuardAssumption, GuardInv, NEW b \in Addresses
  PROVE  LET after == IF b \in DOMAIN G!Store THEN G!Store[b] ELSE [count |-> 0, start |-> time]
         IN  /\ b \in DOMAIN G!Store => b \in DOMAIN rate /\ G!Store[b] = rate[b]
             /\ Windowed(passes[b], after.start, after.count, time)
<1>1. CASE b \in DOMAIN G!Store
  <2>1. b \in DOMAIN rate /\ G!Store[b] = rate[b]
    BY <1>1 DEF G!Store, G!Swept
  <2> QED
    BY <1>1, <2>1 DEF GuardInv, Since, Counted
<1>2. CASE b \notin DOMAIN G!Store
  <2>1. Windowed(passes[b], Since(b), Counted(b), time)
    BY DEF GuardInv
  <2>2. CASE b \notin DOMAIN rate
    BY <1>2, <2>1, <2>2 DEF Since, Counted
  <2>3. CASE b \in DOMAIN rate
    <3>1. G!Stale(rate[b])
      BY <1>2, <2>3 DEF G!Store, G!Swept
    <3>2. /\ rate[b].start \in Nat /\ rate[b].count \in Nat /\ time \in Nat /\ passes[b] \in Seq(Nat)
          /\ Window \in Nat
      BY <2>3 DEF GuardInv, GuardTyped, G!GuardAssumption
    <3>3. Windowed(passes[b], rate[b].start, rate[b].count, time)
      BY <2>1, <2>3 DEF Since, Counted
    <3>4. rate[b].start + Window <= time
      BY <3>1, <3>2 DEF G!Stale
    <3>5. Windowed(passes[b], time, 0, time)
      BY <3>2, <3>3, <3>4, WindowLapses
    <3> QED
      BY <1>2, <3>5
  <2> QED
    BY <2>2, <2>3
<1> QED
  BY <1>1, <1>2

\* A request of an address leaves the requests of the others as they were.
LEMMA RequestTyped ==
  ASSUME GuardInv, NEW a \in Addresses, G!Request(a)
  PROVE  /\ time' = time /\ time \in Nat /\ passes' \in [Addresses -> Seq(Nat)]
         /\ passes[a] \in Seq(Nat) /\ passes'[a] = Append(passes[a], time)
         /\ \A b \in Addresses \ {a} : passes'[b] = passes[b]
<1>1. passes' = [passes EXCEPT ![a] = Append(passes[a], time)] /\ time' = time
  BY DEF G!Request
<1>2. passes \in [Addresses -> Seq(Nat)] /\ time \in Nat
  BY DEF GuardInv, GuardTyped
<1>3. Append(passes[a], time) \in Seq(Nat)
  BY <1>2
<1> QED
  BY <1>1, <1>2, <1>3

\* The first request of an address, or of its next window, is the first counted.
LEMMA RequestStep ==
  ASSUME G!GuardAssumption, GuardInv, NEW a \in Addresses, G!Request(a)
  PROVE  GuardInv'
<1>1. /\ time' = time /\ time \in Nat /\ passes' \in [Addresses -> Seq(Nat)]
      /\ passes[a] \in Seq(Nat) /\ passes'[a] = Append(passes[a], time)
      /\ \A b \in Addresses \ {a} : passes'[b] = passes[b]
  BY RequestTyped
<1>2. Window \in Nat \ {0} /\ Limit \in Nat \ {0}
  BY DEF G!GuardAssumption
<1>3. DOMAIN rate \subseteq Addresses /\ rate \in [DOMAIN rate -> [count : Nat, start : Nat]]
  BY DEF GuardInv, GuardTyped
<1>4. G!First = [count |-> 1, start |-> time] /\ G!First \in [count : Nat, start : Nat]
  BY <1>1 DEF G!First
<1>5. \A b \in Addresses : Windowed(passes[b], Since(b), Counted(b), time)
  BY DEF GuardInv
<1>6. ASSUME Windowed(passes[a], time, 0, time)
      PROVE  Windowed(passes'[a], time, 1, time)
  BY <1>1, <1>2, <1>6, WindowCounts
<1>7. CASE /\ a \notin DOMAIN rate
           /\ rate' = [b \in {a} \cup DOMAIN G!Store |-> IF b = a THEN G!First ELSE G!Store[b]]
  <2>1. \A b \in DOMAIN G!Store : b \in DOMAIN rate /\ G!Store[b] = rate[b]
    BY DEF G!Store, G!Swept
  <2>2. DOMAIN rate' = {a} \cup DOMAIN G!Store /\ rate'[a] = G!First
        /\ \A b \in DOMAIN G!Store : b # a /\ rate'[b] = G!Store[b]
    BY <1>7, <2>1
  <2>3. GuardTyped'
    BY <1>1, <1>3, <1>4, <1>7, <2>1 DEF GuardTyped
  <2>4. Windowed(passes'[a], time, 1, time)
    BY <1>5, <1>6, <1>7 DEF Since, Counted
  <2>5. ASSUME NEW b \in Addresses PROVE Windowed(passes'[b], Since(b)', Counted(b)', time')
    <3>1. CASE b = a
      <4>1. Since(a)' = time /\ Counted(a)' = 1
        BY <1>4, <2>2 DEF Since, Counted
      <4> QED
        BY <1>1, <2>4, <3>1, <4>1
    <3>2. CASE b # a
      <4>1. /\ b \in DOMAIN G!Store => Windowed(passes[b], G!Store[b].start, G!Store[b].count, time)
            /\ b \notin DOMAIN G!Store => Windowed(passes[b], time, 0, time)
        BY SweptIsLapsed
      <4>2. b \in DOMAIN rate' <=> b \in DOMAIN G!Store
        BY <2>2, <3>2
      <4> QED
        BY <1>1, <2>2, <3>2, <4>1, <4>2 DEF Since, Counted
    <3> QED
      BY <3>1, <3>2
  <2> QED
    BY <2>3, <2>5 DEF GuardInv
<1>8. CASE /\ a \in DOMAIN rate
           /\ \/ G!Stale(rate[a]) /\ rate' = [rate EXCEPT ![a] = G!First]
              \/ /\ ~G!Stale(rate[a]) /\ rate[a].count < Limit
                 /\ rate' = [rate EXCEPT ![a].count = rate[a].count + 1]
  <2>1. /\ rate[a].start \in Nat /\ rate[a].count \in Nat
        /\ Windowed(passes[a], rate[a].start, rate[a].count, time)
    BY <1>3, <1>5, <1>8 DEF Since, Counted
  <2>2. /\ DOMAIN rate' = DOMAIN rate /\ rate'[a] \in [count : Nat, start : Nat]
        /\ \A b \in DOMAIN rate \ {a} : rate'[b] = rate[b]
        /\ Windowed(passes'[a], rate'[a].start, rate'[a].count, time)
    <3>1. CASE G!Stale(rate[a]) /\ rate' = [rate EXCEPT ![a] = G!First]
      <4>1. rate[a].start + Window <= time
        BY <1>1, <1>2, <2>1, <3>1 DEF G!Stale
      <4>2. Windowed(passes[a], time, 0, time)
        BY <1>1, <2>1, <4>1, WindowLapses
      <4>3. rate'[a] = G!First
        BY <1>3, <1>8, <3>1
      <4>4. DOMAIN rate' = DOMAIN rate /\ \A b \in DOMAIN rate \ {a} : rate'[b] = rate[b]
        BY <1>3, <3>1
      <4> QED
        BY <1>4, <1>6, <4>2, <4>3, <4>4
    <3>2. CASE /\ ~G!Stale(rate[a]) /\ rate[a].count < Limit
               /\ rate' = [rate EXCEPT ![a].count = rate[a].count + 1]
      <4>1. time < rate[a].start + Window
        BY <1>1, <1>2, <2>1, <3>2 DEF G!Stale
      <4>2. Windowed(passes'[a], rate[a].start, rate[a].count + 1, time)
        BY <1>1, <2>1, <3>2, <4>1, WindowCounts
      <4>3. /\ rate'[a].start = rate[a].start /\ rate'[a].count = rate[a].count + 1
            /\ rate'[a] \in [count : Nat, start : Nat]
        BY <1>3, <1>8, <3>2
      <4>4. DOMAIN rate' = DOMAIN rate /\ \A b \in DOMAIN rate \ {a} : rate'[b] = rate[b]
        BY <1>3, <3>2
      <4> QED
        BY <4>2, <4>3, <4>4
    <3> QED
      BY <1>8, <3>1, <3>2
  <2>3. rate' \in [DOMAIN rate' -> [count : Nat, start : Nat]]
    BY <1>3, <1>8, <1>4, <2>1
  <2>4. GuardTyped'
    BY <1>1, <1>3, <2>2, <2>3 DEF GuardTyped
  <2>5. ASSUME NEW b \in Addresses PROVE Windowed(passes'[b], Since(b)', Counted(b)', time')
    <3>1. CASE b = a
      BY <1>1, <1>8, <2>2, <3>1 DEF Since, Counted
    <3>2. CASE b # a
      <4>1. Since(b)' = Since(b) /\ Counted(b)' = Counted(b)
        BY <1>1, <2>2, <3>2 DEF Since, Counted
      <4> QED
        BY <1>1, <1>5, <3>2, <4>1
    <3> QED
      BY <3>1, <3>2
  <2> QED
    BY <2>4, <2>5 DEF GuardInv
<1> QED
  BY <1>7, <1>8 DEF G!Request

\* Time goes on for every address.
LEMMA TickStep ==
  ASSUME G!GuardAssumption, GuardInv, G!Tick
  PROVE  GuardInv'
<1>1. time' = time + 1 /\ UNCHANGED <<rate, passes>> /\ time \in Nat
  BY DEF G!Tick, GuardInv, GuardTyped
<1>2. GuardTyped'
  BY <1>1 DEF GuardInv, GuardTyped
<1>3. ASSUME NEW a \in Addresses PROVE Windowed(passes'[a], Since(a)', Counted(a)', time')
  <2>1. /\ passes[a] \in Seq(Nat) /\ Since(a) \in Nat /\ Counted(a) \in Nat
        /\ Windowed(passes[a], Since(a), Counted(a), time)
    BY <1>1 DEF GuardInv, GuardTyped, Since, Counted
  <2>2. /\ Windowed(passes[a], Since(a), Counted(a), time + 1)
        /\ Since(a) = time /\ Counted(a) = 0 => Windowed(passes[a], time + 1, 0, time + 1)
    BY <1>1, <2>1, WindowAges
  <2>3. CASE a \in DOMAIN rate
    BY <1>1, <2>2, <2>3 DEF Since, Counted
  <2>4. CASE a \notin DOMAIN rate
    BY <1>1, <2>2, <2>4 DEF Since, Counted
  <2> QED
    BY <2>3, <2>4
<1> QED
  BY <1>2, <1>3 DEF GuardInv

\* A stretch of RateBounded is one that Windowed bounds.
LEMMA GuardBounds ==
  ASSUME G!GuardAssumption, GuardInv
  PROVE  G!RateBounded
<1>1. Window \in Nat \ {0}
  BY DEF G!GuardAssumption
<1> SUFFICES ASSUME NEW a \in Addresses, NEW t \in 0..time
             PROVE  Cardinality({i \in DOMAIN passes[a] : passes[a][i] \in t..(t + Window - 1)}) <= 2 * Limit
  <2>1. \A some : G!Cardinality(some) = Cardinality(some)
    BY DEF Cardinality, G!Cardinality
  <2> QED
    BY <2>1 DEF G!RateBounded
<1>2. time \in Nat /\ passes[a] \in Seq(Nat) /\ t \in Nat
  BY DEF GuardInv, GuardTyped
<1>3. {i \in DOMAIN passes[a] : passes[a][i] \in t..(t + Window - 1)} = Between(passes[a], t, t + Window)
  <2>1. \A i \in DOMAIN passes[a] : passes[a][i] \in Nat
    BY <1>2
  <2>2. \A n \in Nat : n \in t..(t + Window - 1) <=> t <= n /\ n < t + Window
    BY <1>1, <1>2
  <2> QED
    BY <2>1, <2>2 DEF Between
<1>4. Cardinality(Between(passes[a], t, t + Window)) <= 2 * Limit
  BY <1>2 DEF GuardInv, Windowed
<1> QED
  BY <1>3, <1>4

\* No stretch of time as long as a window has more than twice the limit of requests
\* from one address, whatever the sweep of the rate store removes in between.
THEOREM ApiRateBounded == Spec => []RateBounded
<1>1. Init => GuardInv
  BY GuardInit, PartsAssumption DEF Init, PartsAssumption
<1>2. GuardInv /\ [G!Next]_G!vars => GuardInv'
  <2> SUFFICES ASSUME GuardInv, [G!Next]_G!vars PROVE GuardInv'
    OBVIOUS
  <2>1. CASE UNCHANGED G!vars
    BY <2>1 DEF G!vars, GuardInv, GuardTyped, Since, Counted
  <2>2. CASE G!Tick
    BY <2>2, TickStep, PartsAssumption DEF PartsAssumption
  <2>3. ASSUME NEW a \in Addresses, G!Request(a) PROVE GuardInv'
    BY <2>3, RequestStep, PartsAssumption DEF PartsAssumption
  <2> QED
    BY <2>1, <2>2, <2>3 DEF G!Next
<1>3. [Next]_vars => [G!Next]_G!vars
  BY OneOfTheParts
<1>4. GuardInv => RateBounded
  BY GuardBounds, PartsAssumption DEF RateBounded, PartsAssumption
<1> QED
  BY <1>1, <1>2, <1>3, <1>4, PTL DEF Spec

-----------------------------------------------------------------------------
(* LoadTest.                                                               *)

LoadTyped ==
  /\ samples \in Nat /\ energy \in Nat /\ now \in Nat /\ power \in Nat
  /\ prev \in [power : Nat, time : Nat] /\ logged \in [powers : SUBSET Nat, from : Nat]

\* The least and the largest of the powers; what they give in the time bounds the sum.
Bounds(low, high, powers, span, sum) ==
  /\ low \in powers /\ high \in powers
  /\ \A p \in powers : low <= p /\ p <= high
  /\ 2 * low * span <= sum /\ sum <= 2 * high * span

LogKept ==
  /\ logged.from <= prev.time /\ prev.time <= now
  /\ samples = 0 => energy = 0 /\ logged.powers = {}
  /\ samples > 0 =>
       /\ prev.power \in logged.powers
       /\ \E low \in Nat, high \in Nat : Bounds(low, high, logged.powers, prev.time - logged.from, energy)

LoadInv == LoadTyped /\ LogKept

\* The trapezoid of two samples is between what the least and the largest power give.
LEMMA LowerBoundGrows ==
  ASSUME NEW low \in Nat, NEW least \in Nat, NEW p \in Nat, NEW q \in Nat, NEW span \in Nat,
         NEW more \in Nat, NEW e \in Nat,
         least <= low, least <= p, least <= q, 2 * low * span <= e
  PROVE  2 * least * (span + more) <= e + (p + q) * more
<1>1. \A a \in Nat, b \in Nat, k \in Nat : a <= b => a * k <= b * k
  OBVIOUS
<1>2. (2 * least) * (span + more) = (2 * least) * span + (2 * least) * more
  OBVIOUS
<1>3. (2 * least) * span <= (2 * low) * span
  BY <1>1
<1>4. (2 * least) * more <= (p + q) * more
  BY <1>1
<1>5. (2 * least) * span \in Nat /\ (2 * low) * span \in Nat /\ (2 * least) * more \in Nat /\ (p + q) * more \in Nat
  OBVIOUS
<1> QED
  BY <1>2, <1>3, <1>4, <1>5

\* The same, above.
LEMMA UpperBoundGrows ==
  ASSUME NEW high \in Nat, NEW largest \in Nat, NEW p \in Nat, NEW q \in Nat, NEW span \in Nat,
         NEW more \in Nat, NEW e \in Nat,
         high <= largest, p <= largest, q <= largest, e <= 2 * high * span
  PROVE  e + (p + q) * more <= 2 * largest * (span + more)
<1>1. \A a \in Nat, b \in Nat, k \in Nat : a <= b => a * k <= b * k
  OBVIOUS
<1>2. (2 * largest) * (span + more) = (2 * largest) * span + (2 * largest) * more
  OBVIOUS
<1>3. (2 * high) * span <= (2 * largest) * span
  BY <1>1
<1>4. (p + q) * more <= (2 * largest) * more
  BY <1>1
<1>5. (2 * largest) * span \in Nat /\ (2 * high) * span \in Nat /\ (2 * largest) * more \in Nat /\ (p + q) * more \in Nat
  OBVIOUS
<1> QED
  BY <1>2, <1>3, <1>4, <1>5

\* A sample widens the bounds to its power, and the time to now.
LEMMA SampleStep ==
  ASSUME LoadInv, L!Sample
  PROVE  LoadInv'
<1>1. /\ samples' = samples + 1 /\ prev' = [power |-> power, time |-> now] /\ now' = now /\ power' = 0
      /\ logged' = [powers |-> logged.powers \cup {power}, from |-> IF samples = 0 THEN now ELSE logged.from]
      /\ energy' = energy + L!Added
  BY DEF L!Sample
<1>2. /\ samples \in Nat /\ energy \in Nat /\ now \in Nat /\ power \in Nat
      /\ prev.power \in Nat /\ prev.time \in Nat /\ logged.powers \subseteq Nat /\ logged.from \in Nat
      /\ logged.from <= prev.time /\ prev.time <= now
  BY DEF LoadInv, LoadTyped, LogKept
<1>3. samples' > 0 /\ samples' \in Nat
  BY <1>1, <1>2
<1>4. CASE samples = 0
  <2>1. L!Added = 0 /\ energy = 0 /\ logged.powers = {}
    BY <1>4, <1>2 DEF L!Added, LoadInv, LogKept
  <2>2. energy' = 0 /\ logged' = [powers |-> {power}, from |-> now]
    BY <1>1, <1>4, <2>1
  <2>3. LoadTyped'
    BY <1>1, <1>2, <1>3, <2>2 DEF LoadTyped
  <2>4. 2 * power * 0 = 0 /\ now - now = 0
    BY <1>2
  <2>5. Bounds(power, power, {power}, 0, 0)
    BY <1>2, <2>4 DEF Bounds
  <2>6. /\ logged'.from <= prev'.time /\ prev'.time <= now' /\ prev'.power \in logged'.powers
        /\ Bounds(power, power, logged'.powers, prev'.time - logged'.from, energy')
    <3>1. logged'.powers = {power} /\ logged'.from = now /\ prev'.time = now /\ prev'.power = power /\ now' = now
      BY <1>1, <2>2
    <3>2. prev'.time - logged'.from = 0
      BY <2>4, <3>1
    <3> QED
      BY <1>2, <2>2, <2>5, <3>1, <3>2
  <2> QED
    BY <1>2, <1>3, <2>3, <2>6 DEF LoadInv, LogKept
<1>5. CASE samples > 0
  <2>1. PICK low \in Nat, high \in Nat : Bounds(low, high, logged.powers, prev.time - logged.from, energy)
    BY <1>5 DEF LoadInv, LogKept
  <2>2. PICK span \in Nat : span = prev.time - logged.from
    BY <1>2
  <2>3. PICK more \in Nat : more = now - prev.time
    BY <1>2
  <2>4. L!Added = (prev.power + power) * more
    BY <1>2, <1>5, <2>3 DEF L!Added
  <2>5. PICK least \in {low, power} : least <= low /\ least <= power
    BY <1>2
  <2>6. PICK largest \in {high, power} : high <= largest /\ power <= largest
    BY <1>2
  <2>7. /\ prev.power \in logged.powers /\ low \in logged.powers /\ high \in logged.powers
        /\ \A p \in logged.powers : low <= p /\ p <= high
        /\ 2 * low * span <= energy /\ energy <= 2 * high * span
    BY <1>5, <2>1, <2>2 DEF LoadInv, LogKept, Bounds
  <2>8. least <= prev.power /\ prev.power <= largest /\ least \in Nat /\ largest \in Nat
    BY <1>2, <2>5, <2>6, <2>7
  <2>9. 2 * least * (span + more) <= energy + (prev.power + power) * more
    BY <1>2, <2>5, <2>7, <2>8, LowerBoundGrows
  <2>10. energy + (prev.power + power) * more <= 2 * largest * (span + more)
    BY <1>2, <2>6, <2>7, <2>8, UpperBoundGrows
  <2>11. logged' = [powers |-> logged.powers \cup {power}, from |-> logged.from]
    BY <1>1, <1>2, <1>5
  <2>12. prev'.time - logged'.from = span + more
    BY <1>1, <1>2, <2>2, <2>3, <2>11
  <2>13. \A p \in logged.powers \cup {power} : least <= p /\ p <= largest
    BY <1>2, <2>5, <2>6, <2>7, <2>8
  <2>14. Bounds(least, largest, logged'.powers, prev'.time - logged'.from, energy')
    BY <1>1, <2>4, <2>5, <2>6, <2>7, <2>9, <2>10, <2>11, <2>12, <2>13 DEF Bounds
  <2>15. energy' \in Nat
    BY <1>1, <1>2, <2>4
  <2>16. LoadTyped'
    BY <1>1, <1>2, <1>3, <2>11, <2>15 DEF LoadTyped
  <2>17. logged'.from <= prev'.time /\ prev'.time <= now'
    BY <1>1, <1>2, <2>11
  <2> QED
    BY <1>1, <1>3, <2>8, <2>11, <2>14, <2>16, <2>17 DEF LoadInv, LogKept
<1> QED
  BY <1>2, <1>4, <1>5

\* No other step changes the log, and none turns the clock back.
LEMMA LoadStep ==
  ASSUME L!LoadAssumption, LoadInv, [L!Next]_L!vars
  PROVE  LoadInv'
<1> USE DEF L!readings
<1>1. now \in Nat /\ prev.time \in Nat /\ prev.time <= now
  BY DEF LoadInv, LoadTyped, LogKept
<1>2. Interval \in Nat /\ Powers \subseteq Nat
  BY DEF L!LoadAssumption
<1>3. CASE L!Sample
  BY <1>3, SampleStep
<1>4. ASSUME UNCHANGED <<samples, prev, energy, logged>>, now' \in Nat, now <= now', power' \in Nat
      PROVE  LoadInv'
  <2>1. prev.time <= now'
    BY <1>1, <1>4
  <2> QED
    BY <1>4, <2>1 DEF LoadInv, LoadTyped, LogKept
<1>5. power \in Nat
  BY DEF LoadInv, LoadTyped
<1>6. CASE L!ReadsOn
  <2>1. power' \in Nat /\ UNCHANGED <<now, samples, prev, energy, logged>>
    <3>1. CASE power' \in Powers \cup {0}
      BY <1>2, <1>6, <3>1 DEF L!ReadsOn
    <3>2. CASE UNCHANGED power
      BY <1>5, <1>6, <3>2 DEF L!ReadsOn
    <3> QED
      BY <1>6, <3>1, <3>2 DEF L!ReadsOn
  <2> QED
    BY <1>1, <1>4, <2>1
<1>7. CASE L!Retry \/ L!Sleep
  <2>1. now' \in {now + 2, now + Interval} /\ UNCHANGED <<power, samples, prev, energy, logged>>
    BY <1>7 DEF L!Retry, L!Sleep
  <2>2. now' \in Nat /\ now <= now'
    BY <1>1, <1>2, <2>1
  <2> QED
    BY <1>4, <1>5, <2>1, <2>2
<1>8. CASE \/ L!Verify \/ L!ReadRaises \/ L!CloseFile \/ L!Disconnect \/ L!Summary \/ L!Interrupt
           \/ L!LinkDrops \/ UNCHANGED L!vars
  <2>1. UNCHANGED <<now, power, samples, prev, energy, logged>>
    BY <1>8 DEF L!Verify, L!ReadRaises, L!CloseFile, L!Disconnect, L!Summary, L!Interrupt, L!LinkDrops, L!vars
  <2> QED
    BY <1>1, <1>4, <1>5, <2>1
<1> QED
  BY <1>3, <1>6, <1>7, <1>8 DEF L!Next, L!Test

\* Nothing is logged.
LEMMA LoadInit == L!Init => LoadInv
BY DEF L!Init, LoadInv, LoadTyped, LogKept

\* The bounds are those of the least and the largest power.
LEMMA LogBounds == LoadInv => L!EnergyOfTheLog
<1> SUFFICES ASSUME LoadInv, samples > 0 PROVE L!EnergyOfTheLog
  BY DEF L!EnergyOfTheLog
<1>1. PICK low \in Nat, high \in Nat : Bounds(low, high, logged.powers, prev.time - logged.from, energy)
  BY DEF LoadInv, LogKept
<1>2. logged.powers \subseteq Nat /\ energy \in Nat
  BY DEF LoadInv, LoadTyped
<1>3. PICK span \in Nat : span = prev.time - logged.from
  BY DEF LoadInv, LoadTyped, LogKept
<1>4. L!Min(logged.powers) = low
  <2>1. low \in logged.powers /\ \A p \in logged.powers : low <= p
    BY <1>1 DEF Bounds
  <2>2. \A x \in logged.powers : (\A y \in logged.powers : x <= y) => x = low
    BY <1>2, <2>1
  <2> QED
    BY <2>1, <2>2 DEF L!Min
<1>5. L!Max(logged.powers) = high
  <2>1. high \in logged.powers /\ \A p \in logged.powers : p <= high
    BY <1>1 DEF Bounds
  <2>2. \A x \in logged.powers : (\A y \in logged.powers : x >= y) => x = high
    BY <1>2, <2>1
  <2>3. \A y \in logged.powers : high >= y
    BY <1>2, <2>1
  <2> QED
    BY <2>1, <2>2, <2>3 DEF L!Max
<1>6. energy \in (2 * low * span)..(2 * high * span)
  BY <1>1, <1>2, <1>3 DEF Bounds
<1> QED
  BY <1>3, <1>4, <1>5, <1>6 DEF L!EnergyOfTheLog

\* The energy of a load test is between what the least and the largest power of its log
\* give in the time it covers, whatever reads fail in between and however long they take.
THEOREM ApiEnergyOfTheLog == Spec => []EnergyOfTheLog
<1>1. Init => LoadInv
  BY LoadInit DEF Init
<1>2. LoadInv /\ [L!Next]_L!vars => LoadInv'
  BY LoadStep, PartsAssumption DEF PartsAssumption
<1>3. [Next]_vars => [L!Next]_L!vars
  BY OneOfTheParts
<1>4. LoadInv => EnergyOfTheLog
  BY LogBounds DEF EnergyOfTheLog
<1> QED
  BY <1>1, <1>2, <1>3, <1>4, PTL DEF Spec

-----------------------------------------------------------------------------
(* ApiSessions: the order of messages and frames.                          *)

Message == [device : S!Device, seq : Nat \ {0}]

Frame == [device : S!Device, seq : Nat]

SessionsTyped ==
  /\ produced \in Nat /\ bus \in Seq(Message) /\ current \in Message \cup {S!None}
  /\ busy \subseteq {"store"} \cup Sessions /\ store \in [S!Device -> Nat]
  /\ ws \in [Sessions -> {"none", "status", "state", "open", "closed"}]
  /\ todo \in [Sessions -> Seq(S!Device)] /\ held \in [Sessions -> Nat]
  /\ out \in [Sessions -> Seq(Frame)] /\ seen \in [Sessions -> [S!Device -> Nat]]

\* The bus keeps the order of the messages, the store is behind what is on it, and
\* when the sessions' listeners run the store has their message.
BusOrder ==
  /\ \A i \in 1..Len(bus) : bus[i].seq <= produced
  /\ \A i \in 1..Len(bus), j \in 1..Len(bus) : i < j => bus[i].seq < bus[j].seq
  /\ \A i \in 1..Len(bus), d \in S!Device : store[d] < bus[i].seq
  /\ \A d \in S!Device : store[d] <= produced
  /\ current # S!None =>
       /\ current.seq <= produced
       /\ \A i \in 1..Len(bus) : current.seq < bus[i].seq
       /\ \A d \in S!Device : store[d] <= current.seq
       /\ "store" \notin busy => store[current.device] = current.seq
  /\ busy # {} => current # S!None

\* What a session sends of each device if it sends it next.
Coming(s) ==
  [d \in S!Device |-> IF ws[s] = "state" /\ d = Head(todo[s]) THEN held[s] ELSE store[d]]

\* The frames of a device are in order, from what the client shows to the limit.
Ordered(frames, shown, limit) ==
  /\ \A d \in S!Device : shown[d] <= limit[d]
  /\ \A i \in 1..Len(frames) : frames[i].seq # 0 =>
       shown[frames[i].device] <= frames[i].seq /\ frames[i].seq <= limit[frames[i].device]
  /\ \A i \in 1..Len(frames), j \in 1..Len(frames) :
       /\ i < j /\ frames[i].device = frames[j].device
       /\ frames[i].seq # 0 /\ frames[j].seq # 0
       => frames[i].seq <= frames[j].seq

SessionOrder ==
  \A s \in Sessions :
    /\ ws[s] = "state" => todo[s] # <<>> /\ held[s] <= store[Head(todo[s])]
    /\ Ordered(out[s], seen[s], Coming(s))

SessionsInv == SessionsTyped /\ BusOrder /\ SessionOrder

-----------------------------------------------------------------------------
(* Frames in order.                                                        *)

\* The members of a sequence of frames, or of messages.
LEMMA MembersTyped ==
  /\ \A frames \in Seq(Frame) : \A i \in 1..Len(frames) :
       frames[i] \in Frame /\ frames[i].device \in S!Device /\ frames[i].seq \in Nat
  /\ \A messages \in Seq(Message) : \A i \in 1..Len(messages) :
       messages[i] \in Message /\ messages[i].device \in S!Device /\ messages[i].seq \in Nat
<1>1. \A frames \in Seq(Frame) : \A i \in 1..Len(frames) : frames[i] \in Frame
  OBVIOUS
<1>2. \A messages \in Seq(Message) : \A i \in 1..Len(messages) : messages[i] \in Message
  OBVIOUS
<1>3. \A frame \in Frame : frame.device \in S!Device /\ frame.seq \in Nat
  BY DEF Frame
<1>4. \A message \in Message : message.device \in S!Device /\ message.seq \in Nat
  BY DEF Message
<1> QED
  BY <1>1, <1>2, <1>3, <1>4

\* A session that sends later sends no less.
LEMMA OrderedLater ==
  ASSUME NEW frames \in Seq(Frame), NEW shown \in [S!Device -> Nat],
         NEW limit \in [S!Device -> Nat], NEW later \in [S!Device -> Nat],
         Ordered(frames, shown, limit), \A d \in S!Device : limit[d] <= later[d]
  PROVE  Ordered(frames, shown, later)
<1>1. \A i \in 1..Len(frames) : frames[i] \in Frame
  OBVIOUS
<1>2. \A d \in S!Device : shown[d] <= later[d]
  BY DEF Ordered
<1>3. ASSUME NEW i \in 1..Len(frames), frames[i].seq # 0
      PROVE  shown[frames[i].device] <= frames[i].seq /\ frames[i].seq <= later[frames[i].device]
  <2>1. frames[i].device \in S!Device /\ frames[i].seq \in Nat
    BY <1>1 DEF Frame
  <2> QED
    BY <1>3, <2>1 DEF Ordered
<1> QED
  BY <1>2, <1>3 DEF Ordered

\* A frame of what the session sends next goes to the end.
LEMMA OrderedAppend ==
  ASSUME NEW frames \in Seq(Frame), NEW shown \in [S!Device -> Nat], NEW limit \in [S!Device -> Nat],
         Ordered(frames, shown, limit),
         NEW frame \in Frame, frame.seq # 0 => frame.seq = limit[frame.device]
  PROVE  Append(frames, frame) \in Seq(Frame) /\ Ordered(Append(frames, frame), shown, limit)
<1> DEFINE more == Append(frames, frame)
<1>1. /\ more \in Seq(Frame) /\ Len(more) = Len(frames) + 1 /\ Len(frames) \in Nat
      /\ \A i \in 1..Len(frames) : more[i] = frames[i] /\ frames[i] \in Frame
      /\ more[Len(frames) + 1] = frame
  OBVIOUS
<1> HIDE DEF more
<1>2. frame.device \in S!Device /\ frame.seq \in Nat
  BY DEF Frame
<1>3. \A i \in 1..Len(frames) : frames[i].device \in S!Device /\ frames[i].seq \in Nat
  BY <1>1 DEF Frame
<1>4. \A d \in S!Device : shown[d] <= limit[d]
  BY DEF Ordered
<1>5. ASSUME NEW i \in 1..Len(more), more[i].seq # 0
      PROVE  shown[more[i].device] <= more[i].seq /\ more[i].seq <= limit[more[i].device]
  <2>1. CASE i = Len(frames) + 1
    BY <1>1, <1>2, <1>4, <1>5, <2>1
  <2>2. CASE i \in 1..Len(frames)
    BY <1>1, <1>5, <2>2 DEF Ordered
  <2> QED
    BY <1>1, <2>1, <2>2
<1>6. ASSUME NEW i \in 1..Len(more), NEW j \in 1..Len(more), i < j,
             more[i].device = more[j].device, more[i].seq # 0, more[j].seq # 0
      PROVE  more[i].seq <= more[j].seq
  <2>1. i \in 1..Len(frames)
    BY <1>1, <1>6
  <2>2. CASE j = Len(frames) + 1
    BY <1>1, <1>2, <1>6, <2>1, <2>2 DEF Ordered
  <2>3. CASE j \in 1..Len(frames)
    BY <1>1, <1>6, <2>1, <2>3 DEF Ordered
  <2> QED
    BY <1>1, <2>2, <2>3
<1>7. Ordered(more, shown, limit)
  BY <1>4, <1>5, <1>6 DEF Ordered
<1> QED
  BY <1>1, <1>7 DEF more

\* What a client shows once it has read the first frame.
Read(shown, frame) == IF frame.seq = 0 THEN shown ELSE [shown EXCEPT ![frame.device] = frame.seq]

\* The client shows the first frame, and the others stay in order.
LEMMA OrderedRead ==
  ASSUME NEW frames \in Seq(Frame), NEW shown \in [S!Device -> Nat], NEW limit \in [S!Device -> Nat],
         Ordered(frames, shown, limit), frames # <<>>
  PROVE  LET showing == Read(shown, Head(frames))
         IN  /\ showing \in [S!Device -> Nat] /\ Tail(frames) \in Seq(Frame)
             /\ Ordered(Tail(frames), showing, limit)
             /\ \A d \in S!Device : shown[d] <= showing[d]
<1>1. \A i \in 1..Len(frames) : frames[i].device \in S!Device /\ frames[i].seq \in Nat
  BY MembersTyped
<1> DEFINE rest == Tail(frames)
           showing == Read(shown, Head(frames))
<1>2. /\ rest \in Seq(Frame) /\ Len(rest) + 1 = Len(frames) /\ Len(rest) \in Nat
      /\ \A i \in 1..Len(rest) : rest[i] = frames[i + 1] /\ i + 1 \in 1..Len(frames)
      /\ Head(frames) = frames[1] /\ 1 \in 1..Len(frames)
  OBVIOUS
<1>3. showing \in [S!Device -> Nat]
  BY <1>2, <1>1 DEF Read
<1>4. \A d \in S!Device : showing[d] = IF d = frames[1].device /\ frames[1].seq # 0 THEN frames[1].seq ELSE shown[d]
  BY <1>2, <1>1 DEF Read
<1> HIDE DEF rest, showing
<1>5. \A d \in S!Device : shown[d] <= showing[d] /\ showing[d] <= limit[d]
  BY <1>2, <1>1, <1>4 DEF Ordered
<1>6. ASSUME NEW i \in 1..Len(rest), rest[i].seq # 0
      PROVE  showing[rest[i].device] <= rest[i].seq /\ rest[i].seq <= limit[rest[i].device]
  <2>1. 1 < i + 1 /\ i + 1 \in 1..Len(frames) /\ rest[i] = frames[i + 1]
    BY <1>2
  <2>2. /\ shown[frames[i + 1].device] <= frames[i + 1].seq
        /\ frames[i + 1].seq <= limit[frames[i + 1].device]
    BY <1>6, <2>1 DEF Ordered
  <2>3. frames[1].device = frames[i + 1].device /\ frames[1].seq # 0 => frames[1].seq <= frames[i + 1].seq
    BY <1>2, <1>6, <2>1 DEF Ordered
  <2>4. frames[i + 1].device \in S!Device
    BY <1>1, <2>1
  <2> QED
    BY <1>4, <2>1, <2>2, <2>3, <2>4
<1>7. ASSUME NEW i \in 1..Len(rest), NEW j \in 1..Len(rest), i < j,
             rest[i].device = rest[j].device, rest[i].seq # 0, rest[j].seq # 0
      PROVE  rest[i].seq <= rest[j].seq
  <2>1. i + 1 < j + 1
    BY <1>7
  <2> QED
    BY <1>2, <1>7, <2>1 DEF Ordered
<1>8. Ordered(rest, showing, limit)
  BY <1>5, <1>6, <1>7 DEF Ordered
<1> QED
  BY <1>2, <1>3, <1>5, <1>8 DEF rest, showing

-----------------------------------------------------------------------------
(* The steps.                                                              *)

\* Nothing is on its way, and every client shows nothing.
LEMMA SessionsInit == S!SessionsAssumption /\ S!Init => SessionsInv
<1> SUFFICES ASSUME S!SessionsAssumption, S!Init PROVE SessionsInv
  OBVIOUS
<1>1. SessionsTyped
  BY DEF S!Init, SessionsTyped
<1>2. BusOrder
  BY DEF S!Init, BusOrder
<1>3. SessionOrder
  BY DEF S!Init, SessionOrder, Ordered, Coming
<1> QED
  BY <1>1, <1>2, <1>3 DEF SessionsInv

\* What is in order for a session stays so while its own state does, if the store
\* only goes on.
LEMMA SessionsKeep ==
  ASSUME SessionsInv, SessionsTyped', UNCHANGED <<ws, todo, held, out, seen>>,
         \A d \in S!Device : store[d] <= store'[d]
  PROVE  SessionOrder'
<1> SUFFICES ASSUME NEW s \in Sessions
             PROVE  /\ ws[s] = "state" => todo[s] # <<>> /\ held[s] <= store'[Head(todo[s])]
                    /\ Ordered(out[s], seen[s], Coming(s)')
  BY DEF SessionOrder
<1>1. /\ out[s] \in Seq(Frame) /\ seen[s] \in [S!Device -> Nat] /\ held[s] \in Nat
      /\ todo[s] \in Seq(S!Device) /\ store \in [S!Device -> Nat] /\ store' \in [S!Device -> Nat]
  BY DEF SessionsInv, SessionsTyped
<1>2. Coming(s) \in [S!Device -> Nat] /\ Coming(s)' \in [S!Device -> Nat]
  BY <1>1 DEF Coming
<1>3. \A d \in S!Device : Coming(s)[d] <= Coming(s)'[d]
  BY <1>1 DEF Coming
<1>4. ws[s] = "state" => todo[s] # <<>> /\ held[s] <= store[Head(todo[s])]
  BY DEF SessionsInv, SessionOrder
<1>5. ws[s] = "state" => Head(todo[s]) \in S!Device
  BY <1>1, <1>4
<1>6. ws[s] = "state" => todo[s] # <<>> /\ held[s] <= store'[Head(todo[s])]
  BY <1>1, <1>4, <1>5
<1>7. Ordered(out[s], seen[s], Coming(s))
  BY DEF SessionsInv, SessionOrder
<1> QED
  BY <1>1, <1>2, <1>3, <1>6, <1>7, OrderedLater

\* The handlers put a message on the bus.
LEMMA PutStep == SessionsInv /\ S!Put => SessionsInv'
<1> SUFFICES ASSUME SessionsInv, S!Put PROVE SessionsInv'
  OBVIOUS
<1> USE DEF S!busVars, S!sessionVars, S!clientVars
<1>1. PICK d \in S!Device : bus' = Append(bus, [device |-> d, seq |-> produced'])
  BY DEF S!Put
<1>2. /\ produced' = produced + 1 /\ produced \in Nat /\ bus \in Seq(Message)
      /\ UNCHANGED <<current, busy, store, ws, todo, held, out, seen>>
  BY DEF S!Put, SessionsInv, SessionsTyped
<1> DEFINE new == [device |-> d, seq |-> produced']
<1>3. new \in Message /\ new.seq = produced + 1
  BY <1>2 DEF Message
<1> HIDE DEF new
<1>4. /\ bus' \in Seq(Message) /\ Len(bus') = Len(bus) + 1 /\ Len(bus) \in Nat
      /\ \A i \in 1..Len(bus) : bus'[i] = bus[i] /\ bus[i] \in Message
      /\ bus'[Len(bus) + 1] = new
  BY <1>1, <1>2, <1>3 DEF new
<1>5. \A i \in 1..Len(bus) : bus[i].seq \in Nat
  BY <1>4 DEF Message
<1>6. SessionsTyped'
  BY <1>2, <1>4 DEF SessionsInv, SessionsTyped
<1>7. \A i \in 1..Len(bus') : i = Len(bus) + 1 \/ i \in 1..Len(bus)
  BY <1>4
<1>8. current # S!None => current.seq \in Nat
  BY DEF SessionsInv, SessionsTyped, Message
<1>9. \A e \in S!Device : store[e] \in Nat
  BY DEF SessionsInv, SessionsTyped
<1>10. BusOrder'
  <2>1. \A i \in 1..Len(bus') : bus'[i].seq <= produced'
    BY <1>2, <1>3, <1>4, <1>5, <1>7 DEF SessionsInv, BusOrder
  <2>2. \A i \in 1..Len(bus'), j \in 1..Len(bus') : i < j => bus'[i].seq < bus'[j].seq
    BY <1>2, <1>3, <1>4, <1>5, <1>7 DEF SessionsInv, BusOrder
  <2>3. \A i \in 1..Len(bus'), e \in S!Device : store'[e] < bus'[i].seq
    BY <1>2, <1>3, <1>4, <1>5, <1>7, <1>9 DEF SessionsInv, BusOrder
  <2>4. \A e \in S!Device : store'[e] <= produced'
    BY <1>2, <1>9 DEF SessionsInv, BusOrder
  <2>5. current' # S!None => current'.seq <= produced' /\ \A i \in 1..Len(bus') : current'.seq < bus'[i].seq
    BY <1>2, <1>3, <1>4, <1>5, <1>7, <1>8 DEF SessionsInv, BusOrder
  <2> QED
    BY <1>2, <2>1, <2>2, <2>3, <2>4, <2>5 DEF SessionsInv, BusOrder
<1>11. SessionOrder'
  BY <1>2, <1>6, <1>9, SessionsKeep
<1> QED
  BY <1>6, <1>10, <1>11 DEF SessionsInv

\* The bus takes the next message, and is done with it.
LEMMA BusStep == SessionsInv /\ (S!Dispatch \/ S!TaskDone) => SessionsInv'
<1> SUFFICES ASSUME SessionsInv, S!Dispatch \/ S!TaskDone PROVE SessionsInv'
  OBVIOUS
<1> USE DEF S!busVars, S!sessionVars, S!clientVars
<1>1. UNCHANGED <<store, produced, ws, todo, held, out, seen>>
  BY DEF S!Dispatch, S!TaskDone
<1>2. \A d \in S!Device : store[d] \in Nat
  BY DEF SessionsInv, SessionsTyped
<1>3. CASE S!Dispatch
  <2>1. /\ bus \in Seq(Message) /\ bus # <<>> /\ bus' = Tail(bus) /\ current' = Head(bus)
        /\ busy' \subseteq {"store"} \cup Sessions /\ "store" \in busy'
    BY <1>3 DEF S!Dispatch, SessionsInv, SessionsTyped
  <2>2. /\ bus' \in Seq(Message) /\ Len(bus') + 1 = Len(bus) /\ Len(bus') \in Nat
        /\ \A i \in 1..Len(bus') : bus'[i] = bus[i + 1] /\ i + 1 \in 1..Len(bus)
        /\ current' = bus[1] /\ 1 \in 1..Len(bus)
    BY <2>1
  <2>3. \A i \in 1..Len(bus) : bus[i] \in Message /\ bus[i].seq \in Nat
    BY <2>1, MembersTyped
  <2>4. current' \in Message
    BY <2>2, <2>3
  <2>5. SessionsTyped'
    BY <1>1, <2>1, <2>2, <2>4 DEF SessionsInv, SessionsTyped
  <2>6. BusOrder'
    <3>1. \A i \in 1..Len(bus') : bus'[i].seq <= produced'
      BY <1>1, <2>2 DEF SessionsInv, BusOrder
    <3>2. \A i \in 1..Len(bus'), j \in 1..Len(bus') : i < j => bus'[i].seq < bus'[j].seq
      BY <2>2 DEF SessionsInv, BusOrder
    <3>3. \A i \in 1..Len(bus'), d \in S!Device : store'[d] < bus'[i].seq
      BY <1>1, <2>2 DEF SessionsInv, BusOrder
    <3>4. \A i \in 1..Len(bus') : current'.seq < bus'[i].seq
      BY <2>2 DEF SessionsInv, BusOrder
    <3>5. \A d \in S!Device : store'[d] <= current'.seq
      BY <1>1, <1>2, <2>2, <2>3 DEF SessionsInv, BusOrder
    <3>6. current'.seq <= produced'
      BY <1>1, <2>2 DEF SessionsInv, BusOrder
    <3>7. current' # S!None
      BY <2>4 DEF Message, S!None
    <3> QED
      BY <1>1, <2>1, <3>1, <3>2, <3>3, <3>4, <3>5, <3>6, <3>7 DEF SessionsInv, BusOrder
  <2>7. SessionOrder'
    BY <1>1, <1>2, <2>5, SessionsKeep
  <2> QED
    BY <2>5, <2>6, <2>7 DEF SessionsInv
<1>4. CASE S!TaskDone
  <2>1. SessionsTyped'
    BY <1>1, <1>4 DEF S!TaskDone, SessionsInv, SessionsTyped
  <2>2. BusOrder'
    BY <1>1, <1>4 DEF S!TaskDone, SessionsInv, BusOrder
  <2>3. SessionOrder'
    BY <1>1, <1>2, <2>1, SessionsKeep
  <2> QED
    BY <2>1, <2>2, <2>3 DEF SessionsInv
<1> QED
  BY <1>3, <1>4

\* The store takes the message before any session.
LEMMA StoreStep == SessionsInv /\ S!Store => SessionsInv'
<1> SUFFICES ASSUME SessionsInv, S!Store PROVE SessionsInv'
  OBVIOUS
<1> USE DEF S!busVars, S!sessionVars, S!clientVars
<1>1. /\ UNCHANGED <<bus, current, produced, ws, todo, held, out, seen>>
      /\ busy' = busy \ {"store"} /\ store' = [store EXCEPT ![current.device] = current.seq]
      /\ current # S!None
  BY DEF S!Store, SessionsInv, BusOrder
<1>2. /\ current \in Message /\ store \in [S!Device -> Nat] /\ bus \in Seq(Message) /\ produced \in Nat
  BY <1>1 DEF SessionsInv, SessionsTyped
<1>3. current.device \in S!Device /\ current.seq \in Nat
  BY <1>2 DEF Message
<1>4. store' \in [S!Device -> Nat]
  BY <1>1, <1>2, <1>3
<1>5. SessionsTyped'
  BY <1>1, <1>4 DEF SessionsInv, SessionsTyped
<1>6. \A d \in S!Device : store[d] <= store'[d] /\ store'[d] <= current.seq
  BY <1>1, <1>2, <1>3 DEF SessionsInv, BusOrder
<1>7. \A i \in 1..Len(bus) : bus[i].seq \in Nat
  BY <1>2, MembersTyped
<1>8. BusOrder'
  <2>1. \A i \in 1..Len(bus), d \in S!Device : store'[d] < bus[i].seq
    BY <1>1, <1>3, <1>4, <1>6, <1>7 DEF SessionsInv, BusOrder
  <2>2. \A d \in S!Device : store'[d] <= produced
    BY <1>1, <1>2, <1>3, <1>4, <1>6 DEF SessionsInv, BusOrder
  <2>3. store'[current.device] = current.seq
    BY <1>1, <1>2, <1>3
  <2> QED
    BY <1>1, <1>6, <2>1, <2>2, <2>3 DEF SessionsInv, BusOrder
<1>9. SessionOrder'
  BY <1>1, <1>5, <1>6, SessionsKeep
<1> QED
  BY <1>5, <1>8, <1>9 DEF SessionsInv

-----------------------------------------------------------------------------
(* The steps of one session, which leave the others alone.                 *)

\* Every session but s is as it was; s is in order.
LEMMA OneSession ==
  ASSUME SessionsInv, NEW s \in Sessions, SessionsTyped', UNCHANGED store,
         \A r \in Sessions \ {s} :
           ws'[r] = ws[r] /\ todo'[r] = todo[r] /\ held'[r] = held[r] /\ out'[r] = out[r] /\ seen'[r] = seen[r],
         ws'[s] = "state" => todo'[s] # <<>> /\ held'[s] <= store[Head(todo'[s])],
         Ordered(out'[s], seen'[s], Coming(s)')
  PROVE  SessionOrder'
<1> SUFFICES ASSUME NEW r \in Sessions
             PROVE  /\ ws'[r] = "state" => todo'[r] # <<>> /\ held'[r] <= store'[Head(todo'[r])]
                    /\ Ordered(out'[r], seen'[r], Coming(r)')
  BY DEF SessionOrder
<1>1. CASE r = s
  BY <1>1
<1>2. CASE r # s
  <2>1. Coming(r)' = Coming(r)
    BY <1>2 DEF Coming
  <2> QED
    BY <1>2, <2>1 DEF SessionsInv, SessionOrder
<1> QED
  BY <1>1, <1>2

\* What is typed and in order of session s.
LEMMA SessionFacts ==
  ASSUME SessionsInv, NEW s \in Sessions
  PROVE  /\ out[s] \in Seq(Frame) /\ seen[s] \in [S!Device -> Nat] /\ held[s] \in Nat
         /\ todo[s] \in Seq(S!Device) /\ store \in [S!Device -> Nat] /\ Coming(s) \in [S!Device -> Nat]
         /\ Ordered(out[s], seen[s], Coming(s))
         /\ ws[s] = "state" => todo[s] # <<>> /\ Head(todo[s]) \in S!Device /\ held[s] <= store[Head(todo[s])]
         /\ \A d \in S!Device : Coming(s)[d] <= store[d]
<1>1. /\ out[s] \in Seq(Frame) /\ seen[s] \in [S!Device -> Nat] /\ held[s] \in Nat
      /\ todo[s] \in Seq(S!Device) /\ store \in [S!Device -> Nat]
  BY DEF SessionsInv, SessionsTyped
<1>2. Coming(s) \in [S!Device -> Nat]
  BY <1>1 DEF Coming
<1>3. /\ Ordered(out[s], seen[s], Coming(s))
      /\ ws[s] = "state" => todo[s] # <<>> /\ held[s] <= store[Head(todo[s])]
  BY DEF SessionsInv, SessionOrder
<1>4. ws[s] = "state" => Head(todo[s]) \in S!Device
  BY <1>1, <1>3
<1>5. \A d \in S!Device : Coming(s)[d] <= store[d]
  BY <1>1, <1>3 DEF Coming
<1> QED
  BY <1>1, <1>2, <1>3, <1>4, <1>5

\* The bus does not notice a session, but for a listener that has returned.
LEMMA BusKeeps ==
  ASSUME SessionsInv, UNCHANGED <<bus, current, store, produced>>,
         busy' = busy \/ \E s \in Sessions : busy' = busy \ {s}, S!SessionsAssumption
  PROVE  BusOrder' /\ busy' \subseteq busy
<1>1. busy' \subseteq busy /\ ("store" \in busy' <=> "store" \in busy)
  BY DEF S!SessionsAssumption
<1> QED
  BY <1>1 DEF SessionsInv, BusOrder

\* What a session does next of its snapshot.
LEMMA SnapshotStep ==
  ASSUME S!SessionsAssumption, SessionsInv, NEW s \in Sessions,
         S!Open(s) \/ S!SendStatus(s) \/ S!SendState(s) \/ S!Subscribe(s)
  PROVE  SessionsInv' /\ UNCHANGED seen
<1> USE DEF S!busVars, S!clientVars
<1>1. /\ UNCHANGED <<bus, current, busy, store, produced, seen>>
      /\ out[s] \in Seq(Frame) /\ seen[s] \in [S!Device -> Nat] /\ held[s] \in Nat
      /\ todo[s] \in Seq(S!Device) /\ store \in [S!Device -> Nat] /\ Coming(s) \in [S!Device -> Nat]
      /\ Ordered(out[s], seen[s], Coming(s)) /\ \A d \in S!Device : Coming(s)[d] <= store[d]
  BY SessionFacts DEF S!Open, S!SendStatus, S!SendState, S!Subscribe
<1>2. BusOrder'
  BY <1>1, BusKeeps
<1>3. /\ ws \in [Sessions -> {"none", "status", "state", "open", "closed"}]
      /\ todo \in [Sessions -> Seq(S!Device)] /\ held \in [Sessions -> Nat]
      /\ out \in [Sessions -> Seq(Frame)]
  BY DEF SessionsInv, SessionsTyped
<1>4. CASE S!Open(s) \/ S!Subscribe(s)
  <2>1. /\ ws' \in [Sessions -> {"none", "status", "state", "open", "closed"}] /\ ws'[s] # "state"
        /\ todo' \in [Sessions -> Seq(S!Device)] /\ UNCHANGED <<held, out>> /\ ws[s] # "state"
        /\ \A r \in Sessions \ {s} : ws'[r] = ws[r] /\ todo'[r] = todo[r]
    BY <1>3, <1>4 DEF S!Open, S!Subscribe, S!SessionsAssumption
  <2>2. SessionsTyped'
    BY <1>1, <2>1 DEF SessionsInv, SessionsTyped
  <2>3. Coming(s)' = Coming(s)
    BY <1>1, <2>1 DEF Coming
  <2>4. SessionOrder'
    BY <1>1, <2>1, <2>2, <2>3, OneSession
  <2> QED
    BY <1>1, <1>2, <2>2, <2>4 DEF SessionsInv
<1>5. CASE S!SendStatus(s)
  <2> DEFINE d == Head(todo[s])
             frame == [device |-> d, seq |-> 0]
  <2>1. /\ todo[s] # <<>> /\ ws' = [ws EXCEPT ![s] = "state"] /\ todo' = todo
        /\ held' = [held EXCEPT ![s] = store[d]] /\ out' = [out EXCEPT ![s] = Append(out[s], frame)]
    BY <1>5 DEF S!SendStatus
  <2>2. d \in S!Device /\ store[d] \in Nat
    BY <1>1, <2>1
  <2>3. frame \in Frame /\ frame.seq = 0
    BY <2>2 DEF Frame
  <2> HIDE DEF d, frame
  <2>4. Append(out[s], frame) \in Seq(Frame) /\ Ordered(Append(out[s], frame), seen[s], Coming(s))
    BY <1>1, <2>3, OrderedAppend
  <2>5. /\ ws'[s] = "state" /\ held'[s] = store[d] /\ out'[s] = Append(out[s], frame)
        /\ \A r \in Sessions \ {s} : ws'[r] = ws[r] /\ held'[r] = held[r] /\ out'[r] = out[r]
        /\ ws' \in [Sessions -> {"none", "status", "state", "open", "closed"}]
        /\ held' \in [Sessions -> Nat] /\ out' \in [Sessions -> Seq(Frame)]
    BY <1>3, <2>1, <2>2, <2>4
  <2>6. SessionsTyped'
    BY <1>1, <2>1, <2>5 DEF SessionsInv, SessionsTyped
  <2>7. Coming(s)' = [e \in S!Device |-> store[e]]
    BY <1>1, <2>1, <2>5 DEF Coming, d
  <2>8. Coming(s)' \in [S!Device -> Nat] /\ \A e \in S!Device : Coming(s)[e] <= Coming(s)'[e]
    BY <1>1, <2>7
  <2>9. Ordered(out'[s], seen'[s], Coming(s)')
    BY <1>1, <2>4, <2>5, <2>8, OrderedLater
  <2>10. todo'[s] # <<>> /\ held'[s] <= store[Head(todo'[s])]
    BY <2>1, <2>2, <2>5 DEF d
  <2>11. SessionOrder'
    BY <1>1, <2>1, <2>5, <2>6, <2>9, <2>10, OneSession
  <2> QED
    BY <1>1, <1>2, <2>6, <2>11 DEF SessionsInv
<1>6. CASE S!SendState(s)
  <2> DEFINE d == Head(todo[s])
             frame == [device |-> d, seq |-> held[s]]
  <2>1. /\ ws[s] = "state" /\ ws' = [ws EXCEPT ![s] = "status"] /\ held' = held
        /\ todo' = [todo EXCEPT ![s] = Tail(todo[s])]
        /\ out' = IF held[s] = 0 THEN out ELSE [out EXCEPT ![s] = Append(out[s], frame)]
    BY <1>6 DEF S!SendState
  <2>2. todo[s] # <<>> /\ d \in S!Device
    BY <2>1, SessionFacts
  <2>3. frame \in Frame /\ frame.seq = Coming(s)[frame.device] /\ Tail(todo[s]) \in Seq(S!Device)
    BY <1>1, <2>1, <2>2 DEF Frame, Coming
  <2> HIDE DEF d, frame
  <2>4. Append(out[s], frame) \in Seq(Frame) /\ Ordered(Append(out[s], frame), seen[s], Coming(s))
    BY <1>1, <2>3, OrderedAppend
  <2>5. /\ ws'[s] = "status" /\ out'[s] \in {out[s], Append(out[s], frame)}
        /\ \A r \in Sessions \ {s} : ws'[r] = ws[r] /\ todo'[r] = todo[r] /\ out'[r] = out[r]
        /\ ws' \in [Sessions -> {"none", "status", "state", "open", "closed"}]
        /\ todo' \in [Sessions -> Seq(S!Device)] /\ out' \in [Sessions -> Seq(Frame)]
    BY <1>3, <2>1, <2>3, <2>4
  <2>6. SessionsTyped'
    BY <1>1, <2>1, <2>5 DEF SessionsInv, SessionsTyped
  <2>7. Coming(s)' = [e \in S!Device |-> store[e]]
    BY <1>1, <2>5 DEF Coming
  <2>8. Coming(s)' \in [S!Device -> Nat] /\ \A e \in S!Device : Coming(s)[e] <= Coming(s)'[e]
    BY <1>1, <2>7
  <2>9. Ordered(out'[s], seen'[s], Coming(s)')
    BY <1>1, <2>4, <2>5, <2>8, OrderedLater
  <2>10. SessionOrder'
    BY <1>1, <2>1, <2>5, <2>6, <2>9, OneSession
  <2> QED
    BY <1>1, <1>2, <2>6, <2>10 DEF SessionsInv
<1> QED
  BY <1>4, <1>5, <1>6

\* A listener that sends what the store has already.
LEMMA DeliverStep ==
  ASSUME S!SessionsAssumption, SessionsInv, NEW s \in Sessions, S!Deliver(s)
  PROVE  SessionsInv' /\ UNCHANGED seen
<1>1. /\ UNCHANGED <<bus, current, store, produced, ws, todo, held, seen>>
      /\ busy' = busy \ {s} /\ s \in busy /\ "store" \notin busy
      /\ \/ UNCHANGED out
         \/ ws[s] = "open" /\ out' = [out EXCEPT ![s] = Append(out[s], current)]
  BY DEF S!Deliver, S!Sent, S!Listens, S!clientVars
<1>2. BusOrder' /\ busy' \subseteq busy
  BY <1>1, BusKeeps
<1>3. /\ out[s] \in Seq(Frame) /\ seen[s] \in [S!Device -> Nat] /\ store \in [S!Device -> Nat]
      /\ Coming(s) \in [S!Device -> Nat] /\ Ordered(out[s], seen[s], Coming(s))
      /\ ws[s] = "state" => todo[s] # <<>> /\ held[s] <= store[Head(todo[s])]
  BY SessionFacts
<1>4. /\ current # S!None /\ store[current.device] = current.seq /\ current \in Message
  BY <1>1 DEF SessionsInv, SessionsTyped, BusOrder
<1>5. current \in Frame /\ current.device \in S!Device
  BY <1>4 DEF Message, Frame
<1>6. Coming(s)' = Coming(s)
  BY <1>1 DEF Coming
<1>7. /\ out' \in [Sessions -> Seq(Frame)] /\ \A r \in Sessions \ {s} : out'[r] = out[r]
      /\ Ordered(out'[s], seen[s], Coming(s))
  <2>1. CASE UNCHANGED out
    BY <1>3, <2>1 DEF SessionsInv, SessionsTyped
  <2>2. CASE ws[s] = "open" /\ out' = [out EXCEPT ![s] = Append(out[s], current)]
    <3>1. current.seq = Coming(s)[current.device]
      BY <1>4, <1>5, <2>2 DEF Coming
    <3>2. Append(out[s], current) \in Seq(Frame) /\ Ordered(Append(out[s], current), seen[s], Coming(s))
      BY <1>3, <1>5, <3>1, OrderedAppend
    <3>3. out'[s] = Append(out[s], current)
      BY <2>2 DEF SessionsInv, SessionsTyped
    <3> QED
      BY <2>2, <3>2, <3>3 DEF SessionsInv, SessionsTyped
  <2> QED
    BY <1>1, <2>1, <2>2
<1>8. SessionsTyped'
  BY <1>1, <1>2, <1>7 DEF SessionsInv, SessionsTyped
<1>9. SessionOrder'
  BY <1>1, <1>3, <1>6, <1>7, <1>8, OneSession
<1> QED
  BY <1>1, <1>2, <1>8, <1>9 DEF SessionsInv

\* The end of a connection.
LEMMA CloseStep ==
  ASSUME S!SessionsAssumption, SessionsInv, NEW s \in Sessions, S!Close(s)
  PROVE  SessionsInv' /\ UNCHANGED seen
<1>1. /\ UNCHANGED <<bus, current, busy, store, produced, seen>>
      /\ ws' = [ws EXCEPT ![s] = "closed"] /\ todo' = [todo EXCEPT ![s] = <<>>]
      /\ held' = [held EXCEPT ![s] = 0] /\ out' = [out EXCEPT ![s] = <<>>]
  BY DEF S!Close, S!busVars, S!clientVars
<1>2. BusOrder'
  BY <1>1, BusKeeps
<1>3. /\ seen[s] \in [S!Device -> Nat] /\ store \in [S!Device -> Nat] /\ Coming(s) \in [S!Device -> Nat]
      /\ Ordered(out[s], seen[s], Coming(s)) /\ \A d \in S!Device : Coming(s)[d] <= store[d]
  BY SessionFacts
<1>4. /\ \A r \in Sessions \ {s} :
           ws'[r] = ws[r] /\ todo'[r] = todo[r] /\ held'[r] = held[r] /\ out'[r] = out[r]
      /\ ws'[s] = "closed" /\ out'[s] = <<>>
      /\ ws' \in [Sessions -> {"none", "status", "state", "open", "closed"}]
      /\ todo' \in [Sessions -> Seq(S!Device)] /\ held' \in [Sessions -> Nat]
      /\ out' \in [Sessions -> Seq(Frame)]
  BY <1>1 DEF SessionsInv, SessionsTyped
<1>5. SessionsTyped'
  BY <1>1, <1>4 DEF SessionsInv, SessionsTyped
<1>6. Coming(s)' = [e \in S!Device |-> store[e]]
  BY <1>1, <1>4 DEF Coming
<1>7. \A e \in S!Device : seen[s][e] <= store[e]
  BY <1>3 DEF Ordered
<1>8. Ordered(out'[s], seen'[s], Coming(s)')
  BY <1>1, <1>4, <1>6, <1>7 DEF Ordered
<1>9. SessionOrder'
  BY <1>1, <1>4, <1>5, <1>8, OneSession
<1> QED
  BY <1>1, <1>2, <1>5, <1>9 DEF SessionsInv

\* The client shows no earlier state than before.
LEMMA ClientReadsStep ==
  ASSUME S!SessionsAssumption, SessionsInv, NEW s \in Sessions, S!ClientReads(s)
  PROVE  SessionsInv' /\ \A r \in Sessions, d \in S!Device : seen[r][d] <= seen'[r][d]
<1> DEFINE showing == Read(seen[s], Head(out[s]))
<1>1. /\ UNCHANGED <<bus, current, busy, store, produced, ws, todo, held>>
      /\ out[s] # <<>> /\ out' = [out EXCEPT ![s] = Tail(out[s])]
  BY DEF S!ClientReads, S!busVars
<1>2. seen' = [seen EXCEPT ![s] = showing]
  BY DEF S!ClientReads, Read, SessionsInv, SessionsTyped
<1>3. BusOrder'
  BY <1>1, BusKeeps
<1>4. /\ out[s] \in Seq(Frame) /\ seen[s] \in [S!Device -> Nat] /\ Coming(s) \in [S!Device -> Nat]
      /\ Ordered(out[s], seen[s], Coming(s))
      /\ ws[s] = "state" => todo[s] # <<>> /\ held[s] <= store[Head(todo[s])]
  BY SessionFacts
<1>5. /\ showing \in [S!Device -> Nat] /\ Tail(out[s]) \in Seq(Frame)
      /\ Ordered(Tail(out[s]), showing, Coming(s)) /\ \A d \in S!Device : seen[s][d] <= showing[d]
  BY <1>1, <1>4, OrderedRead
<1> HIDE DEF showing
<1>6. /\ \A r \in Sessions \ {s} : out'[r] = out[r] /\ seen'[r] = seen[r]
      /\ out'[s] = Tail(out[s]) /\ seen'[s] = showing
      /\ out' \in [Sessions -> Seq(Frame)] /\ seen' \in [Sessions -> [S!Device -> Nat]]
  BY <1>1, <1>2, <1>5 DEF SessionsInv, SessionsTyped
<1>7. SessionsTyped'
  BY <1>1, <1>6 DEF SessionsInv, SessionsTyped
<1>8. Coming(s)' = Coming(s)
  BY <1>1 DEF Coming
<1>9. SessionOrder'
  BY <1>1, <1>4, <1>5, <1>6, <1>7, <1>8, OneSession
<1>10. \A r \in Sessions, d \in S!Device : seen[r][d] <= seen'[r][d]
  <2> SUFFICES ASSUME NEW r \in Sessions, NEW d \in S!Device PROVE seen[r][d] <= seen'[r][d]
    OBVIOUS
  <2>1. seen[r][d] \in Nat
    BY DEF SessionsInv, SessionsTyped
  <2> QED
    BY <1>5, <1>6, <2>1
<1> QED
  BY <1>3, <1>7, <1>9, <1>10 DEF SessionsInv

\* A step of the bus, of a handler or of a session, or none.
LEMMA SessionsStep ==
  ASSUME S!SessionsAssumption, SessionsInv, [S!Next]_S!vars
  PROVE  SessionsInv' /\ \A s \in Sessions, d \in S!Device : seen[s][d] <= seen'[s][d]
<1>1. \A s \in Sessions, d \in S!Device : seen[s][d] \in Nat
  BY DEF SessionsInv, SessionsTyped
<1>2. UNCHANGED seen => \A s \in Sessions, d \in S!Device : seen[s][d] <= seen'[s][d]
  BY <1>1
<1>3. CASE UNCHANGED S!vars
  <2>1. UNCHANGED <<bus, current, busy, store, produced, ws, todo, held, out, seen>>
    BY <1>3 DEF S!vars, S!busVars, S!sessionVars, S!clientVars
  <2>2. SessionsTyped' /\ BusOrder'
    BY <2>1 DEF SessionsInv, SessionsTyped, BusOrder
  <2>3. \A d \in S!Device : store[d] \in Nat
    BY DEF SessionsInv, SessionsTyped
  <2>4. SessionOrder'
    BY <2>1, <2>2, <2>3, SessionsKeep
  <2> QED
    BY <1>2, <2>1, <2>2, <2>4 DEF SessionsInv
<1>4. CASE S!Put \/ S!Bus
  <2>1. UNCHANGED seen
    BY <1>4 DEF S!Put, S!Bus, S!Dispatch, S!Store, S!TaskDone, S!clientVars
  <2> QED
    BY <1>2, <1>4, <2>1, PutStep, BusStep, StoreStep DEF S!Bus
<1>5. ASSUME NEW s \in Sessions, S!Open(s) \/ S!Session(s) \/ S!Close(s) \/ S!ClientReads(s)
      PROVE  SessionsInv' /\ \A r \in Sessions, d \in S!Device : seen[r][d] <= seen'[r][d]
  <2>1. CASE S!Open(s) \/ S!SendStatus(s) \/ S!SendState(s) \/ S!Subscribe(s)
    BY <1>2, <2>1, SnapshotStep
  <2>2. CASE S!Deliver(s)
    BY <1>2, <2>2, DeliverStep
  <2>3. CASE S!Close(s)
    BY <1>2, <2>3, CloseStep
  <2>4. CASE S!ClientReads(s)
    BY <2>4, ClientReadsStep
  <2> QED
    BY <1>5, <2>1, <2>2, <2>3, <2>4 DEF S!Session
<1> QED
  BY <1>3, <1>4, <1>5 DEF S!Next

\* Whatever the order of snapshots, updates, slow clients and connections that end, no
\* client is shown an earlier state of a device after a later one.
THEOREM ApiNeverBack == Spec => NeverBack
<1>1. Init => SessionsInv
  BY SessionsInit, PartsAssumption DEF Init, PartsAssumption
<1>2. SessionsInv /\ [S!Next]_S!vars => SessionsInv'
  BY SessionsStep, PartsAssumption DEF PartsAssumption
<1>3. SessionsInv /\ [S!Next]_S!vars => [\A s \in Sessions, d \in S!Device : seen[s][d] <= seen'[s][d]]_S!vars
  BY SessionsStep, PartsAssumption DEF PartsAssumption
<1>4. [Next]_vars => [S!Next]_S!vars
  BY OneOfTheParts
<1> QED
  BY <1>1, <1>2, <1>3, <1>4, PTL DEF Spec, NeverBack, S!NeverBack

-----------------------------------------------------------------------------
(* What the client is shown last.                                          *)

\* A client that shows shown and reads the frames shows v of d in the end.
Latest(frames, shown, d, v) ==
  \/ shown[d] = v /\ \A i \in 1..Len(frames) : frames[i].device = d => frames[i].seq = 0
  \/ \E i \in 1..Len(frames) :
       /\ frames[i].device = d /\ frames[i].seq = v /\ v # 0
       /\ \A j \in 1..Len(frames) : j > i /\ frames[j].device = d => frames[j].seq = 0

\* The listener of s is going to send what the store has of d.
Awaited(s, d) == s \in busy /\ "store" \notin busy /\ current.device = d

\* The state of d is the next s sends of its snapshot.
Sending(s, d) == ws[s] = "state" /\ d = Head(todo[s])

\* What the client of s shows of d in the end is in the store, or on the way to it,
\* or still to read for the snapshot, or missed.
Brought(s, d) ==
  /\ ws[s] = "open" =>
       d \in missed[s] \/ Awaited(s, d) \/ Latest(out[s], seen[s], d, store[d])
  /\ ws[s] \in {"status", "state"} =>
       \/ d \in missed[s] \/ d \in S!Unread(s)
       \/ IF Sending(s, d) THEN held[s] = store[d] ELSE Latest(out[s], seen[s], d, store[d])

ShownInv ==
  /\ missed \in [Sessions -> SUBSET S!Device]
  /\ \A s \in Sessions :
       /\ s \in busy => ws[s] \in {"open", "closed"}
       /\ ws[s] = "open" => todo[s] = <<>>
       /\ \A d \in S!Device : Brought(s, d)

\* A frame at the end is shown last; one of another device, or a status, is not.
LEMMA LatestAppend ==
  ASSUME NEW frames \in Seq(Frame), NEW frame \in Frame, NEW shown, NEW d, NEW v
  PROVE  LET more == Append(frames, frame)
         IN  /\ frame.device = d /\ frame.seq = v /\ v # 0 => Latest(more, shown, d, v)
             /\ (frame.device # d \/ frame.seq = 0) /\ Latest(frames, shown, d, v) => Latest(more, shown, d, v)
<1> DEFINE more == Append(frames, frame)
<1>1. PICK n \in Nat : n = Len(frames)
  OBVIOUS
<1>2. /\ Len(more) = n + 1 /\ more[n + 1] = frame
      /\ \A i \in 1..n : more[i] = frames[i]
  BY <1>1
<1> HIDE DEF more
<1>3. ASSUME frame.device = d, frame.seq = v, v # 0
      PROVE  Latest(more, shown, d, v)
  <2>1. n + 1 \in 1..(n + 1) /\ \A j \in 1..(n + 1) : ~(j > n + 1)
    BY <1>1
  <2> QED
    BY <1>2, <1>3, <2>1 DEF Latest
<1>4. ASSUME frame.device # d \/ frame.seq = 0, Latest(frames, shown, d, v)
      PROVE  Latest(more, shown, d, v)
  <2>1. \A j \in 1..(n + 1) : j = n + 1 \/ j \in 1..n
    BY <1>1
  <2>2. CASE shown[d] = v /\ \A i \in 1..n : frames[i].device = d => frames[i].seq = 0
    BY <1>1, <1>2, <1>4, <2>1, <2>2 DEF Latest
  <2>3. ASSUME NEW i \in 1..n, frames[i].device = d, frames[i].seq = v, v # 0,
               \A j \in 1..n : j > i /\ frames[j].device = d => frames[j].seq = 0
        PROVE  Latest(more, shown, d, v)
    <3>1. i \in 1..(n + 1) /\ more[i].device = d /\ more[i].seq = v
      BY <1>1, <1>2, <2>3
    <3>2. \A j \in 1..(n + 1) : j > i /\ more[j].device = d => more[j].seq = 0
      BY <1>2, <1>4, <2>1, <2>3
    <3> QED
      BY <1>2, <2>3, <3>1, <3>2 DEF Latest
  <2> QED
    BY <1>1, <1>4, <2>2, <2>3 DEF Latest
<1> QED
  BY <1>3, <1>4 DEF more

\* Reading does not change what is shown last.
LEMMA LatestRead ==
  ASSUME NEW frames \in Seq(Frame), NEW shown \in [S!Device -> Nat], NEW d \in S!Device, NEW v,
         frames # <<>>, Latest(frames, shown, d, v)
  PROVE  Latest(Tail(frames), Read(shown, Head(frames)), d, v)
<1> DEFINE rest == Tail(frames)
           showing == Read(shown, Head(frames))
<1>1. PICK n \in Nat : n + 1 = Len(frames)
  <2>1. Len(Tail(frames)) \in Nat /\ Len(Tail(frames)) + 1 = Len(frames)
    OBVIOUS
  <2> QED
    BY <2>1
<1>2. /\ Len(rest) = n /\ Head(frames) = frames[1] /\ frames[1] \in Frame
      /\ \A i \in 1..n : rest[i] = frames[i + 1] /\ i + 1 \in 1..(n + 1) /\ i + 1 > 1
  BY <1>1
<1>3. showing[d] = IF frames[1].device = d /\ frames[1].seq # 0 THEN frames[1].seq ELSE shown[d]
  BY <1>2 DEF Read, Frame
<1> HIDE DEF rest, showing
<1>4. 1 \in 1..(n + 1)
  BY <1>1
<1>5. CASE shown[d] = v /\ \A i \in 1..(n + 1) : frames[i].device = d => frames[i].seq = 0
  BY <1>1, <1>2, <1>3, <1>4, <1>5 DEF Latest, rest, showing
<1>6. ASSUME NEW i \in 1..(n + 1), frames[i].device = d, frames[i].seq = v, v # 0,
             \A j \in 1..(n + 1) : j > i /\ frames[j].device = d => frames[j].seq = 0
      PROVE  Latest(rest, showing, d, v)
  <2>1. CASE i = 1
    <3>1. showing[d] = v
      BY <1>3, <1>6, <2>1
    <3>2. \A k \in 1..n : rest[k].device = d => rest[k].seq = 0
      BY <1>2, <1>6, <2>1
    <3> QED
      BY <1>2, <3>1, <3>2 DEF Latest
  <2>2. CASE i # 1
    <3>1. PICK k \in 1..n : k + 1 = i
      BY <1>1, <2>2
    <3>2. rest[k].device = d /\ rest[k].seq = v
      BY <1>2, <1>6, <3>1
    <3>3. \A j \in 1..n : j > k => j + 1 > i
      BY <1>1, <3>1
    <3>4. \A j \in 1..n : j > k /\ rest[j].device = d => rest[j].seq = 0
      BY <1>2, <1>6, <3>3
    <3> QED
      BY <1>2, <1>6, <3>2, <3>4 DEF Latest
  <2> QED
    BY <2>1, <2>2
<1> QED
  BY <1>1, <1>5, <1>6 DEF Latest, rest, showing

\* Nothing has been sent of a device that has no state.
LEMMA LatestNone ==
  ASSUME NEW frames \in Seq(Frame), NEW shown \in [S!Device -> Nat], NEW limit \in [S!Device -> Nat],
         Ordered(frames, shown, limit), NEW d \in S!Device, limit[d] = 0
  PROVE  Latest(frames, shown, d, 0)
<1>1. shown[d] = 0
  BY DEF Ordered
<1>2. ASSUME NEW i \in 1..Len(frames), frames[i].device = d
      PROVE  frames[i].seq = 0
  <2>1. frames[i].seq \in Nat
    BY MembersTyped
  <2> QED
    BY <1>2, <2>1 DEF Ordered
<1> QED
  BY <1>1, <1>2 DEF Latest

-----------------------------------------------------------------------------
(* The snapshot.                                                           *)

\* What is still to read: all of it first, nothing when it has been sent.
LEMMA UnreadEnds ==
  ASSUME S!SessionsAssumption, NEW s \in Sessions
  PROVE  /\ todo[s] = <<>> => S!Unread(s) = {}
         /\ todo[s] = Devices /\ ws[s] = "status" => S!Unread(s) = S!Device
BY DEF S!Unread, S!Device

\* One device after the other is read, and no other is left out.
LEMMA UnreadShrinks ==
  ASSUME NEW s \in Sessions, todo[s] \in Seq(S!Device), todo[s] # <<>>, NEW d \in S!Unread(s)
  PROVE  /\ ws[s] = "status" /\ ws'[s] = "state" /\ todo'[s] = todo[s] =>
              d \in S!Unread(s)' \/ d = Head(todo[s])
         /\ ws[s] = "state" /\ ws'[s] = "status" /\ todo'[s] = Tail(todo[s]) => d \in S!Unread(s)'
<1>1. PICK i \in DOMAIN todo[s] : d = todo[s][i] /\ (i > 1 \/ ws[s] = "status")
  BY DEF S!Unread
<1>2. PICK n \in Nat : n + 1 = Len(todo[s])
  OBVIOUS
<1>3. i \in 1..(n + 1) /\ Head(todo[s]) = todo[s][1]
  BY <1>1, <1>2
<1>4. ASSUME ws[s] = "status", ws'[s] = "state", todo'[s] = todo[s]
      PROVE  d \in S!Unread(s)' \/ d = Head(todo[s])
  BY <1>1, <1>3, <1>4 DEF S!Unread
<1>5. ASSUME ws[s] = "state", ws'[s] = "status", todo'[s] = Tail(todo[s])
      PROVE  d \in S!Unread(s)'
  <2>1. PICK k \in 1..n : k + 1 = i
    BY <1>1, <1>2, <1>3, <1>5
  <2>2. k \in DOMAIN Tail(todo[s]) /\ Tail(todo[s])[k] = todo[s][i]
    BY <1>2, <2>1
  <2> QED
    BY <1>1, <1>5, <2>2 DEF S!Unread
<1> QED
  BY <1>4, <1>5

-----------------------------------------------------------------------------
(* The steps, for what is shown last.                                      *)

\* A session that does nothing, while the store keeps the device.
LEMMA BroughtKept ==
  ASSUME NEW s \in Sessions, NEW d, Brought(s, d),
         ws'[s] = ws[s], todo'[s] = todo[s], held'[s] = held[s], out'[s] = out[s], seen'[s] = seen[s],
         store'[d] = store[d], d \in missed[s] => d \in missed'[s], Awaited(s, d) => Awaited(s, d)'
  PROVE  Brought(s, d)'
<1>1. S!Unread(s)' = S!Unread(s) /\ (Sending(s, d)' <=> Sending(s, d))
  BY DEF S!Unread, Sending
<1> QED
  BY <1>1 DEF Brought

\* Only one session does something.
LEMMA ShownOthers ==
  ASSUME ShownInv, NEW s \in Sessions, UNCHANGED <<store, current, missed>>,
         \A r \in Sessions \ {s} :
           ws'[r] = ws[r] /\ todo'[r] = todo[r] /\ held'[r] = held[r] /\ out'[r] = out[r] /\ seen'[r] = seen[r],
         busy' = busy \/ ("store" \notin busy /\ busy' = busy \ {s}),
         s \in busy' => ws'[s] \in {"open", "closed"},
         ws'[s] = "open" => todo'[s] = <<>>,
         \A d \in S!Device : Brought(s, d)'
  PROVE  ShownInv'
<1>1. ASSUME NEW r \in Sessions, NEW d \in S!Device
      PROVE  Brought(r, d)'
  <2>1. CASE r = s
    BY <2>1
  <2>2. CASE r # s
    <3>1. Awaited(r, d) => Awaited(r, d)'
      BY <2>2 DEF Awaited
    <3>2. Brought(r, d)
      BY DEF ShownInv
    <3> QED
      BY <2>2, <3>1, <3>2, BroughtKept
  <2> QED
    BY <2>1, <2>2
<1>2. ASSUME NEW r \in Sessions
      PROVE  (r \in busy' => ws'[r] \in {"open", "closed"}) /\ (ws'[r] = "open" => todo'[r] = <<>>)
  BY DEF ShownInv
<1> QED
  BY <1>1, <1>2 DEF ShownInv

\* No session is there.
LEMMA ShownInit == S!Init => ShownInv
BY DEF S!Init, ShownInv, Brought

\* The bus moves, and the store has not changed yet.
LEMMA ShownBus ==
  ASSUME S!SessionsAssumption, SessionsInv, ShownInv, S!Put \/ S!Dispatch \/ S!TaskDone
  PROVE  ShownInv'
<1>1. UNCHANGED <<store, ws, todo, held, out, seen, missed>>
  BY DEF S!Put, S!Dispatch, S!TaskDone, S!sessionVars, S!clientVars
<1>2. \/ UNCHANGED <<current, busy>>
      \/ busy = {} /\ busy' = {}
      \/ busy = {} /\ busy' = {"store"} \cup {s \in Sessions : ws[s] = "open"}
  BY DEF S!Put, S!Dispatch, S!TaskDone, S!busVars, S!Listens, SessionsInv, BusOrder
<1>3. ASSUME NEW s \in Sessions, NEW d \in S!Device
      PROVE  Brought(s, d)'
  <2>1. Awaited(s, d) => Awaited(s, d)'
    BY <1>2 DEF Awaited
  <2>2. Brought(s, d)
    BY DEF ShownInv
  <2> QED
    BY <1>1, <2>1, <2>2, BroughtKept
<1>4. ASSUME NEW s \in Sessions, s \in busy'
      PROVE  ws[s] \in {"open", "closed"}
  BY <1>2, <1>4 DEF ShownInv, S!SessionsAssumption
<1> QED
  BY <1>1, <1>3, <1>4 DEF ShownInv

\* The store takes the message: who has read the device before and does not listen
\* misses it, who listens has it to send.
LEMMA ShownStore ==
  ASSUME S!SessionsAssumption, SessionsInv, ShownInv, S!Store
  PROVE  ShownInv'
<1> DEFINE e == current.device
<1>1. /\ UNCHANGED <<current, ws, todo, held, out, seen>>
      /\ "store" \in busy /\ busy' = busy \ {"store"} /\ store' = [store EXCEPT ![e] = current.seq]
      /\ missed' = [s \in Sessions |->
           IF s \notin busy /\ ws[s] # "none" /\ e \notin S!Unread(s)
           THEN missed[s] \cup {e} ELSE missed[s] \ {e}]
  BY DEF S!Store, S!sessionVars
<1>2. current \in Message /\ e \in S!Device
  <2>1. current \in Message
    BY <1>1 DEF SessionsInv, SessionsTyped, BusOrder
  <2> QED
    BY <2>1 DEF Message
<1> HIDE DEF e
<1>3. missed' \in [Sessions -> SUBSET S!Device] /\ missed \in [Sessions -> SUBSET S!Device]
  BY <1>1, <1>2 DEF ShownInv
<1>4. ASSUME NEW s \in Sessions, NEW d \in S!Device
      PROVE  Brought(s, d)'
  <2>1. Brought(s, d) /\ (ws[s] = "open" => todo[s] = <<>>)
    BY DEF ShownInv
  <2>2. CASE d # e
    <3>1. store'[d] = store[d]
      BY <1>1, <2>2 DEF SessionsInv, SessionsTyped
    <3>2. ~Awaited(s, d)
      BY <1>1 DEF Awaited
    <3>3. d \in missed[s] => d \in missed'[s]
      BY <1>1, <2>2
    <3> QED
      BY <1>1, <2>1, <3>1, <3>2, <3>3, BroughtKept
  <2>3. CASE d = e /\ s \in busy
    <3>1. ws[s] \in {"open", "closed"}
      BY <2>3 DEF ShownInv
    <3>2. Awaited(s, d)'
      BY <1>1, <2>3 DEF Awaited, S!SessionsAssumption, e
    <3> QED
      BY <1>1, <3>1, <3>2 DEF Brought
  <2>4. CASE d = e /\ s \notin busy
    <3>1. S!Unread(s)' = S!Unread(s)
      BY <1>1 DEF S!Unread
    <3>2. CASE d \in S!Unread(s)
      <4>1. ws[s] # "open"
        BY <2>1, <3>2, UnreadEnds
      <4> QED
        BY <1>1, <3>1, <3>2, <4>1 DEF Brought
    <3>3. CASE d \notin S!Unread(s) /\ ws[s] # "none"
      <4>1. d \in missed'[s]
        BY <1>1, <2>4, <3>3
      <4> QED
        BY <4>1 DEF Brought
    <3>4. CASE ws[s] = "none"
      BY <1>1, <3>4 DEF Brought
    <3> QED
      BY <3>2, <3>3, <3>4
  <2> QED
    BY <2>2, <2>3, <2>4
<1> QED
  BY <1>1, <1>3, <1>4 DEF ShownInv

\* A snapshot begins, or a session listens.
LEMMA ShownOpens ==
  ASSUME S!SessionsAssumption, SessionsInv, ShownInv, NEW s \in Sessions, S!Open(s) \/ S!Subscribe(s)
  PROVE  ShownInv'
<1>1. /\ UNCHANGED <<store, current, busy, held, out, seen, missed>>
      /\ \A r \in Sessions \ {s} : ws'[r] = ws[r] /\ todo'[r] = todo[r]
      /\ s \notin busy
  <2>1. UNCHANGED <<store, current, busy, held, out, seen, missed>>
    BY DEF S!Open, S!Subscribe, S!busVars, S!clientVars
  <2>2. \A r \in Sessions \ {s} : ws'[r] = ws[r] /\ todo'[r] = todo[r]
    BY DEF S!Open, S!Subscribe, SessionsInv, SessionsTyped
  <2>3. ws[s] \in {"none", "status"}
    BY DEF S!Open, S!Subscribe
  <2> QED
    BY <2>1, <2>2, <2>3 DEF ShownInv
<1>2. \/ ws'[s] = "status" /\ todo'[s] = Devices
      \/ ws[s] = "status" /\ ws'[s] = "open" /\ todo[s] = <<>> /\ todo'[s] = <<>>
  BY DEF S!Open, S!Subscribe, SessionsInv, SessionsTyped
<1>3. ASSUME NEW d \in S!Device PROVE Brought(s, d)'
  <2>1. CASE ws'[s] = "status" /\ todo'[s] = Devices
    <3>1. d \in S!Unread(s)'
      BY <2>1 DEF S!Unread, S!Device
    <3> QED
      BY <2>1, <3>1 DEF Brought
  <2>2. CASE ws[s] = "status" /\ ws'[s] = "open" /\ todo[s] = <<>>
    <3>1. S!Unread(s) = {} /\ ~Sending(s, d)
      BY <2>2, UnreadEnds DEF Sending
    <3>2. d \in missed[s] \/ Latest(out[s], seen[s], d, store[d])
      BY <2>2, <3>1 DEF ShownInv, Brought
    <3> QED
      BY <1>1, <2>2, <3>2 DEF Brought
  <2> QED
    BY <1>2, <2>1, <2>2
<1>4. ws'[s] = "open" => todo'[s] = <<>>
  BY <1>2
<1>5. s \notin busy'
  BY <1>1
<1> QED
  BY <1>1, <1>3, <1>4, <1>5, ShownOthers

\* The state is read, and a status sent.
LEMMA ShownStatus ==
  ASSUME S!SessionsAssumption, SessionsInv, ShownInv, NEW s \in Sessions, S!SendStatus(s)
  PROVE  ShownInv'
<1> DEFINE h == Head(todo[s])
           frame == [device |-> h, seq |-> 0]
<1>1. /\ UNCHANGED <<store, current, busy, todo, seen, missed>> /\ ws[s] = "status" /\ todo[s] # <<>>
      /\ held' = [held EXCEPT ![s] = store[h]] /\ ws' = [ws EXCEPT ![s] = "state"]
      /\ out' = [out EXCEPT ![s] = Append(out[s], frame)]
  BY DEF S!SendStatus, S!busVars, S!clientVars
<1>2. todo[s] \in Seq(S!Device) /\ out[s] \in Seq(Frame)
  BY DEF SessionsInv, SessionsTyped
<1>3. h \in S!Device
  BY <1>1, <1>2
<1>4. frame \in Frame /\ frame.seq = 0
  BY <1>3 DEF Frame
<1> HIDE DEF frame
<1>5. /\ ws'[s] = "state" /\ held'[s] = store[h] /\ out'[s] = Append(out[s], frame)
      /\ \A r \in Sessions \ {s} : ws'[r] = ws[r] /\ held'[r] = held[r] /\ out'[r] = out[r]
  BY <1>1 DEF SessionsInv, SessionsTyped
<1>6. s \notin busy
  BY <1>1 DEF ShownInv
<1>7. ASSUME NEW d \in S!Device PROVE Brought(s, d)'
  <2>1. Sending(s, d)' <=> d = h
    BY <1>1, <1>5 DEF Sending
  <2>2. ~Sending(s, d)
    BY <1>1 DEF Sending
  <2>3. CASE d = h
    BY <1>1, <1>5, <2>1, <2>3 DEF Brought
  <2>4. CASE d \in S!Unread(s)
    <3>1. d \in S!Unread(s)' \/ d = h
      BY <1>1, <1>2, <1>5, <2>4, UnreadShrinks
    <3> QED
      BY <1>1, <1>5, <2>3, <3>1 DEF Brought
  <2>5. CASE d # h /\ d \notin S!Unread(s)
    <3>1. d \in missed[s] \/ Latest(out[s], seen[s], d, store[d])
      BY <1>1, <2>2, <2>5 DEF ShownInv, Brought
    <3>2. Latest(out[s], seen[s], d, store[d]) => Latest(out'[s], seen[s], d, store[d])
      BY <1>2, <1>4, <1>5, LatestAppend
    <3> QED
      BY <1>1, <1>5, <2>1, <2>5, <3>1, <3>2 DEF Brought
  <2> QED
    BY <2>3, <2>4, <2>5
<1> QED
  BY <1>1, <1>5, <1>6, <1>7, ShownOthers

\* The state that was read is sent, if there is one.
LEMMA ShownState ==
  ASSUME S!SessionsAssumption, SessionsInv, ShownInv, NEW s \in Sessions, S!SendState(s)
  PROVE  ShownInv'
<1> DEFINE h == Head(todo[s])
           frame == [device |-> h, seq |-> held[s]]
<1>1. /\ UNCHANGED <<store, current, busy, held, seen, missed>> /\ ws[s] = "state"
      /\ ws' = [ws EXCEPT ![s] = "status"] /\ todo' = [todo EXCEPT ![s] = Tail(todo[s])]
      /\ out' = IF held[s] = 0 THEN out ELSE [out EXCEPT ![s] = Append(out[s], frame)]
  BY DEF S!SendState, S!busVars, S!clientVars
<1>2. /\ out[s] \in Seq(Frame) /\ seen[s] \in [S!Device -> Nat] /\ held[s] \in Nat
      /\ todo[s] \in Seq(S!Device) /\ store \in [S!Device -> Nat] /\ Coming(s) \in [S!Device -> Nat]
      /\ Ordered(out[s], seen[s], Coming(s)) /\ todo[s] # <<>> /\ h \in S!Device
  BY <1>1, SessionFacts
<1>3. frame \in Frame /\ frame.device = h /\ frame.seq = held[s]
  BY <1>2 DEF Frame
<1> HIDE DEF frame
<1>4. /\ ws'[s] = "status" /\ todo'[s] = Tail(todo[s])
      /\ out'[s] = IF held[s] = 0 THEN out[s] ELSE Append(out[s], frame)
      /\ \A r \in Sessions \ {s} : ws'[r] = ws[r] /\ todo'[r] = todo[r] /\ out'[r] = out[r]
  BY <1>1 DEF SessionsInv, SessionsTyped
<1>5. s \notin busy
  BY <1>1 DEF ShownInv
<1>6. ASSUME NEW d \in S!Device PROVE Brought(s, d)'
  <2>1. ~Sending(s, d)' /\ (Sending(s, d) <=> d = h)
    BY <1>1, <1>4 DEF Sending
  <2>2. CASE d \in S!Unread(s)
    <3>1. d \in S!Unread(s)'
      BY <1>1, <1>2, <1>4, <2>2, UnreadShrinks
    <3> QED
      BY <1>4, <3>1 DEF Brought
  <2>3. CASE d \in missed[s]
    BY <1>1, <1>4, <2>3 DEF Brought
  <2>4. CASE d = h /\ held[s] = store[d]
    <3>1. Latest(out'[s], seen[s], d, store[d])
      <4>1. CASE held[s] = 0
        <5>1. Coming(s)[d] = 0
          BY <1>1, <2>4, <4>1 DEF Coming
        <5> QED
          BY <1>2, <1>4, <2>4, <4>1, <5>1, LatestNone
      <4>2. CASE held[s] # 0
        BY <1>2, <1>3, <1>4, <2>4, <4>2, LatestAppend
      <4> QED
        BY <4>1, <4>2
    <3> QED
      BY <1>1, <1>4, <2>1, <3>1 DEF Brought
  <2>5. CASE d # h /\ Latest(out[s], seen[s], d, store[d])
    <3>1. Latest(out'[s], seen[s], d, store[d])
      BY <1>2, <1>3, <1>4, <2>5, LatestAppend
    <3> QED
      BY <1>1, <1>4, <2>1, <3>1 DEF Brought
  <2>6. Brought(s, d)
    BY DEF ShownInv
  <2> QED
    BY <1>1, <2>1, <2>2, <2>3, <2>4, <2>5, <2>6 DEF Brought
<1> QED
  BY <1>1, <1>4, <1>5, <1>6, ShownOthers

\* A listener sends what the store has, or its connection has ended.
LEMMA ShownDeliver ==
  ASSUME S!SessionsAssumption, SessionsInv, ShownInv, NEW s \in Sessions, S!Deliver(s)
  PROVE  ShownInv'
<1>1. /\ UNCHANGED <<store, current, ws, todo, held, seen, missed>>
      /\ s \in busy /\ "store" \notin busy /\ busy' = busy \ {s}
      /\ \/ ws[s] = "closed" /\ UNCHANGED out
         \/ ws[s] = "open" /\ out' = [out EXCEPT ![s] = Append(out[s], current)]
  BY DEF S!Deliver, S!Sent, S!Listens, S!clientVars
<1>2. current # S!None /\ store[current.device] = current.seq /\ current \in Message
  BY <1>1 DEF SessionsInv, SessionsTyped, BusOrder
<1>3. current \in Frame /\ current.device \in S!Device /\ current.seq # 0
  BY <1>2 DEF Message, Frame
<1>4. out[s] \in Seq(Frame) /\ \A r \in Sessions \ {s} : out'[r] = out[r]
  BY <1>1 DEF SessionsInv, SessionsTyped
<1>5. ASSUME NEW d \in S!Device PROVE Brought(s, d)'
  <2>1. CASE ws[s] = "closed"
    BY <1>1, <2>1 DEF Brought
  <2>2. CASE ws[s] = "open" /\ out' = [out EXCEPT ![s] = Append(out[s], current)]
    <3>1. out'[s] = Append(out[s], current)
      BY <2>2 DEF SessionsInv, SessionsTyped
    <3>2. CASE d = current.device
      <4>1. Latest(out'[s], seen[s], d, store[d])
        BY <1>2, <1>3, <1>4, <3>1, <3>2, LatestAppend
      <4> QED
        BY <1>1, <2>2, <4>1 DEF Brought
    <3>3. CASE d # current.device
      <4>1. d \in missed[s] \/ Latest(out[s], seen[s], d, store[d])
        BY <2>2, <3>3 DEF ShownInv, Brought, Awaited
      <4>2. Latest(out[s], seen[s], d, store[d]) => Latest(out'[s], seen[s], d, store[d])
        BY <1>3, <1>4, <3>1, <3>3, LatestAppend
      <4> QED
        BY <1>1, <2>2, <4>1, <4>2 DEF Brought
    <3> QED
      BY <3>2, <3>3
  <2> QED
    BY <1>1, <2>1, <2>2
<1>6. ws'[s] = "open" => todo'[s] = <<>>
  BY <1>1 DEF ShownInv
<1>7. s \notin busy'
  BY <1>1
<1> QED
  BY <1>1, <1>4, <1>5, <1>6, <1>7, ShownOthers

\* A connection that ends brings nothing any more.
LEMMA ShownClose ==
  ASSUME SessionsInv, ShownInv, NEW s \in Sessions, S!Close(s)
  PROVE  ShownInv'
<1>1. /\ UNCHANGED <<store, current, busy, seen, missed>>
      /\ ws'[s] = "closed"
      /\ \A r \in Sessions \ {s} : ws'[r] = ws[r] /\ todo'[r] = todo[r] /\ held'[r] = held[r] /\ out'[r] = out[r]
  BY DEF S!Close, S!busVars, S!clientVars, SessionsInv, SessionsTyped
<1>2. \A d \in S!Device : Brought(s, d)'
  BY <1>1 DEF Brought
<1> QED
  BY <1>1, <1>2, ShownOthers

\* A client reads its next frame.
LEMMA ShownReads ==
  ASSUME SessionsInv, ShownInv, NEW s \in Sessions, S!ClientReads(s)
  PROVE  ShownInv'
<1> DEFINE showing == Read(seen[s], Head(out[s]))
<1>1. /\ UNCHANGED <<store, current, busy, ws, todo, held, missed>> /\ out[s] # <<>>
      /\ out' = [out EXCEPT ![s] = Tail(out[s])]
  BY DEF S!ClientReads, S!busVars
<1>2. seen' = [seen EXCEPT ![s] = showing]
  BY DEF S!ClientReads, Read, SessionsInv, SessionsTyped
<1>3. out[s] \in Seq(Frame) /\ seen[s] \in [S!Device -> Nat]
  BY DEF SessionsInv, SessionsTyped
<1> HIDE DEF showing
<1>4. /\ out'[s] = Tail(out[s]) /\ seen'[s] = showing
      /\ \A r \in Sessions \ {s} : out'[r] = out[r] /\ seen'[r] = seen[r]
  BY <1>1, <1>2 DEF SessionsInv, SessionsTyped
<1>5. ASSUME NEW d \in S!Device PROVE Brought(s, d)'
  <2>1. Latest(out[s], seen[s], d, store[d]) => Latest(out'[s], seen'[s], d, store[d])
    BY <1>1, <1>3, <1>4, LatestRead DEF showing
  <2>2. /\ S!Unread(s)' = S!Unread(s) /\ (Sending(s, d)' <=> Sending(s, d))
        /\ (Awaited(s, d)' <=> Awaited(s, d))
    BY <1>1 DEF S!Unread, Sending, Awaited
  <2>3. Brought(s, d)
    BY DEF ShownInv
  <2> QED
    BY <1>1, <2>1, <2>2, <2>3 DEF Brought
<1>6. /\ s \in busy' => ws'[s] \in {"open", "closed"}
      /\ ws'[s] = "open" => todo'[s] = <<>>
  BY <1>1 DEF ShownInv
<1> QED
  BY <1>1, <1>4, <1>5, <1>6, ShownOthers

\* A step of the bus, of a handler or of a session, or none.
LEMMA ShownStep ==
  ASSUME S!SessionsAssumption, SessionsInv, ShownInv, [S!Next]_S!vars
  PROVE  ShownInv'
<1>1. CASE UNCHANGED S!vars
  <2>1. UNCHANGED <<store, current, busy, ws, todo, held, out, seen, missed>>
    BY <1>1 DEF S!vars, S!busVars, S!sessionVars, S!clientVars
  <2>2. ASSUME NEW s \in Sessions, NEW d \in S!Device PROVE Brought(s, d)'
    <3>1. Awaited(s, d) => Awaited(s, d)'
      BY <2>1 DEF Awaited
    <3>2. Brought(s, d)
      BY DEF ShownInv
    <3> QED
      BY <2>1, <3>1, <3>2, BroughtKept
  <2> QED
    BY <2>1, <2>2 DEF ShownInv
<1>2. CASE S!Put \/ S!Bus
  BY <1>2, ShownBus, ShownStore DEF S!Bus
<1>3. ASSUME NEW s \in Sessions, S!Open(s) \/ S!Session(s) \/ S!Close(s) \/ S!ClientReads(s)
      PROVE  ShownInv'
  BY <1>3, ShownOpens, ShownStatus, ShownState, ShownDeliver, ShownClose, ShownReads DEF S!Session
<1> QED
  BY <1>1, <1>2, <1>3 DEF S!Next

\* A listening session whose frames have been read shows what the store has.
LEMMA ShownInTheEnd == ShownInv => S!ShowsTheStore
<1> SUFFICES ASSUME ShownInv, NEW s \in Sessions, S!Listens(s), out[s] = <<>>, busy = {}, NEW d \in S!Device
             PROVE  seen[s][d] = store[d] \/ d \in missed[s]
  BY DEF S!ShowsTheStore
<1>1. d \in missed[s] \/ Latest(out[s], seen[s], d, store[d])
  BY DEF ShownInv, Brought, Awaited, S!Listens
<1> QED
  BY <1>1 DEF Latest

\* A client that listens and has read everything shows the store's state of a device, but
\* for one whose last update came between its snapshot of it and the subscription.
THEOREM ApiShowsTheStore == Spec => []ShowsTheStore
<1> DEFINE Inv == SessionsInv /\ ShownInv
<1>1. Init => Inv
  BY SessionsInit, ShownInit, PartsAssumption DEF Init, PartsAssumption
<1>2. Inv /\ [S!Next]_S!vars => Inv'
  BY SessionsStep, ShownStep, PartsAssumption DEF PartsAssumption
<1>3. [Next]_vars => [S!Next]_S!vars
  BY OneOfTheParts
<1>4. Inv => ShowsTheStore
  BY ShownInTheEnd DEF ShowsTheStore
<1> QED
  BY <1>1, <1>2, <1>3, <1>4, PTL DEF Spec
=============================================================================
