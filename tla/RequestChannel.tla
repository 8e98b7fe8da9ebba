--------------------------- MODULE RequestChannel ---------------------------
(***************************************************************************)
(* What BluetoothClient.execute promises its callers, without retries,     *)
(* futures or buffers: calls are served one at a time in the order they    *)
(* were made, each ends exactly once, and a call that returns data returns *)
(* a whole reply of the device to a command that fits the caller's.        *)
(***************************************************************************)
EXTENDS Naturals, SequencesExt

CONSTANTS
  Callers, Commands,
  Fits     \* pairs <<s, r>>: a reply to s may be taken for a reply to r

VARIABLES line,    \* callers inside execute, first come first
          asked,   \* the command of each caller's latest call
          given    \* how that call ended

Failures == {"link", "badconn", "modbus", "cancelled", "crash"}

Unfinished == [kind |-> "none", answers |-> "none"]

\* The endings the caller of command r may see: a failure, or a reply to
\* some command that fits r.
Endings(r) ==
  [kind : Failures, answers : {"none"}]
    \cup [kind : {"ok"}, answers : {s \in Commands : <<s, r>> \in Fits}]

InLine(c) == Contains(line, c)

Init ==
  /\ line = <<>>
  /\ asked = [c \in Callers |-> "none"]
  /\ given = [c \in Callers |-> Unfinished]

Submit(c, r) ==
  /\ ~InLine(c)
  /\ line' = Append(line, c)
  /\ asked' = [asked EXCEPT ![c] = r]
  /\ given' = [given EXCEPT ![c] = Unfinished]

Serve ==
  /\ line # <<>>
  /\ line' = Tail(line)
  /\ \E e \in Endings(asked[Head(line)]) : given' = [given EXCEPT ![Head(line)] = e]
  /\ UNCHANGED asked

\* A caller whose task is cancelled leaves its place without being served.
Withdraw(i) ==
  /\ i \in 1..Len(line)
  /\ line' = RemoveAt(line, i)
  /\ given' = [given EXCEPT ![line[i]] = [kind |-> "cancelled", answers |-> "none"]]
  /\ UNCHANGED asked

Next ==
  \/ \E c \in Callers, r \in Commands : Submit(c, r)
  \/ Serve
  \/ \E i \in 1..Len(line) : Withdraw(i)

Spec == Init /\ [][Next]_<<line, asked, given>>
=============================================================================
