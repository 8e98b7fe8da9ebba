------------------------------ MODULE ConfigFile ------------------------------
(***************************************************************************)
(* The configuration file the `config` commands rewrite, which nothing     *)
(* keeps from running at the same time, and the daemon, which reads the    *)
(* first file of its search path when it starts.  A daemon that was given  *)
(* a path reads that file, again when a command asks for a reload; main()  *)
(* gives none.  A request the daemon handles only after its command gave   *)
(* up is left out.                                                         *)
(***************************************************************************)
EXTENDS Naturals

CONSTANTS
  Editors,      \* config commands at the same time
  MaxCommands,  \* bound: config commands
  MaxStarts     \* bound: starts of the daemon

ConfigAssumption == MaxCommands \in Nat /\ MaxStarts \in Nat

VARIABLES
  given,     \* the Daemon has a config_path: the file below
  others,    \* the files before it and after it in CONFIG_SEARCH_PATHS
  file,      \* what the user's file holds, or why that is nothing
  doing,     \* each command's place
  edit,      \* the key it changes
  draft,     \* the document it is going to write
  commands,
  force,     \* the daemon's configuration, or Down
  starts,
  told       \* history: what commands said other than "reloaded"

editorVars == <<doing, edit, draft, commands>>
daemonVars == <<force, starts>>
paths == <<given, others>>
vars == <<paths, file, editorVars, daemonVars, told>>

\* server.host and server.port are one key.
Values ==
  [listen : 0..2,     \* 0: a port out of its range
   api_key : 0..2,    \* 0: empty
   mdns : 1..2, interval : 1..2, devices : 1..2]

Keys == {"listen", "api_key", "mdns", "interval", "devices"}

Down == [listen |-> 0, api_key |-> 0, mdns |-> 1, interval |-> 1, devices |-> 1]

ServerConfig == [Down EXCEPT !.listen = 1]

\* A document, with or without the shutdown_watchdog section, or a text that is
\* none: there is no file, it is truncated, two writers overlap.
Texts == [text : {"yaml", "no file", "empty", "garbled"}, set : Values, watchdog : BOOLEAN]

NoDocument(why) == [text |-> why, set |-> Down, watchdog |-> FALSE]

\* load_config raises no ConfigError.
Readable(doc) == doc.text = "yaml" /\ doc.set.api_key # 0 /\ doc.set.listen # 0

\* _find_config: the first file there is.
Found ==
  IF others.first.text # "no file" THEN others.first
  ELSE IF file.text # "no file" THEN file ELSE others.last

\* What a daemon that starts now would load.
Source == IF given THEN file ELSE Found

-----------------------------------------------------------------------------
(* config set, add-device and remove-device.                               *)

\* The configuration they change: without a file, one with an empty api_key.
Loaded == IF file.text = "no file" THEN ServerConfig ELSE file.set

Load(e) ==
  /\ doing[e] = "idle" /\ commands < MaxCommands /\ commands' = commands + 1
  /\ Readable(file) \/ file.text = "no file"
  /\ \E k \in Keys, new \in Values :
       /\ new[k] # Loaded[k] /\ \A other \in Keys \ {k} : new[other] = Loaded[other]
       /\ edit' = [edit EXCEPT ![e] = k]
       /\ draft' = [draft EXCEPT ![e] = [text |-> "yaml", set |-> new, watchdog |-> FALSE]]
  /\ doing' = [doing EXCEPT ![e] = "loaded"]
  /\ UNCHANGED <<paths, file, daemonVars, told>>

\* The command returns, and its variables are gone.
End(e) ==
  /\ doing' = [doing EXCEPT ![e] = "idle"] /\ edit' = [edit EXCEPT ![e] = "mdns"]
  /\ draft' = [draft EXCEPT ![e] = NoDocument("no file")]

\* write_config reads the document for the sections it does not write, and
\* opens the file, which truncates it.  A text that is no YAML ends the command.
OpenFile(e) ==
  /\ doing[e] = "loaded"
  /\ IF file.text = "garbled"
     THEN End(e) /\ UNCHANGED file
     ELSE /\ doing' = [doing EXCEPT ![e] = "writing"]
          /\ draft' = [draft EXCEPT ![e].watchdog = file.watchdog]
          /\ file' = NoDocument("empty") /\ UNCHANGED edit
  /\ UNCHANGED <<paths, commands, daemonVars, told>>

\* _CONFIG_SETTABLE: after these nobody asks for a reload.
RestartRequired(k) == k \in {"listen", "api_key"}

\* The text of a command that opened the file earlier is overwritten, and what is
\* longer of it stays.
Dump(e) ==
  /\ doing[e] = "writing"
  /\ file' \in IF file.text = "empty" THEN {draft[e]} ELSE {draft[e], NoDocument("garbled")}
  /\ IF RestartRequired(edit[e])
     THEN End(e) /\ told' = told \cup {"restart due"}
     ELSE doing' = [doing EXCEPT ![e] = "reloading"] /\ UNCHANGED <<edit, draft, told>>
  /\ UNCHANGED <<paths, commands, daemonVars>>

\* The command is interrupted, or the disk is full.
WriteFails(e) ==
  /\ doing[e] = "writing" /\ End(e)
  /\ UNCHANGED <<paths, file, commands, daemonVars, told>>

-----------------------------------------------------------------------------
(* POST /api/reload                                                        *)

\* _discover_api_key: of the file this command's search finds, which starts in a
\* directory that may not be the daemon's; without one it can load there is none.
Discovered ==
  {IF Readable(doc) THEN doc.set.api_key ELSE 0 :
     doc \in {Found, IF file.text # "no file" THEN file ELSE others.last}}

\* 503, 400, and before them the 401 of another key.
Refused(key) == ~given \/ ~Readable(file) \/ key # force.api_key

\* Mutant: the new address does not keep the rest from being applied.
NeverRestarts == FALSE

restart_reasons == file.set.listen # force.listen

Applied == [force EXCEPT !.interval = file.set.interval, !.devices = file.set.devices]

\* The daemon's answer; one that is late or cut off ends the command in a traceback,
\* whatever was done.
Answered(e) ==
  /\ doing[e] = "reloading" /\ End(e) /\ force # Down
  /\ \E key \in Discovered :
       IF Refused(key) \/ restart_reasons
       THEN told' \in {told \cup {"restart due"}, told \cup {"traceback"}} /\ UNCHANGED force
       ELSE told' \in {told, told \cup {"traceback"}} /\ force' = Applied
  /\ UNCHANGED <<paths, file, commands, starts>>

\* URLError, as every refusal above.
NotReached(e) ==
  /\ doing[e] = "reloading" /\ End(e) /\ told' = told \cup {"restart due"}
  /\ UNCHANGED <<paths, file, commands, daemonVars>>

Start ==
  /\ force = Down /\ starts < MaxStarts /\ starts' = starts + 1
  /\ Readable(Source)
  /\ force' = Source.set /\ told' = {}
  /\ UNCHANGED <<paths, file, editorVars>>

Stop ==
  /\ force # Down /\ force' = Down
  /\ UNCHANGED <<paths, file, editorVars, starts, told>>

-----------------------------------------------------------------------------

\* A file as an administrator wrote it, and another one elsewhere.
Elsewhere == [text |-> "yaml", set |-> [ServerConfig EXCEPT !.api_key = 2, !.interval = 2], watchdog |-> TRUE]

Written == [text |-> "yaml", set |-> [ServerConfig EXCEPT !.api_key = 1], watchdog |-> TRUE]

Init ==
  /\ given \in BOOLEAN
  /\ others \in [{"first", "last"} -> {NoDocument("no file"), Elsewhere}]
  /\ file \in {NoDocument("no file"), Written}
  /\ doing = [e \in Editors |-> "idle"] /\ edit = [e \in Editors |-> "mdns"]
  /\ draft = [e \in Editors |-> NoDocument("no file")] /\ commands = 0
  /\ force = Down /\ starts = 0 /\ told = {}

Command(e) == Load(e) \/ OpenFile(e) \/ Dump(e) \/ WriteFails(e) \/ Answered(e) \/ NotReached(e)

Next == Start \/ Stop \/ \E e \in Editors : Command(e)

Spec == Init /\ [][Next]_vars

-----------------------------------------------------------------------------

\* What a reload reports as applied and is not: mdns, and the key, when the request
\* came with that of another file.
Unnoticed == {"mdns"} \cup (IF given /\ others.first.text # "no file" THEN {"api_key"} ELSE {})

\* When every command has ended, a running daemon differs from the file it would
\* load now only where one of them said so: whatever is refused, lost or
\* overwritten, the operator has read that a restart is due or a traceback.
StaleTold ==
  (\A e \in Editors : doing[e] = "idle") /\ Readable(Source) /\ force # Down =>
    told # {} \/ \A k \in Keys \ Unnoticed : force[k] = Source.set[k]
=============================================================================
