------------------------------- MODULE ApiGuard -------------------------------
(***************************************************************************)
(* The middlewares every request of the API passes: the allowed networks,  *)
(* the rate limit of its address, whose records are swept when there are   *)
(* too many, and the API key.                                              *)
(***************************************************************************)
EXTENDS Naturals, FiniteSets, Sequences

CONSTANTS
  Addresses,  \* of clients
  Allowed,    \* those in allowed_networks
  Window,     \* _RATE_LIMIT_WINDOW
  Limit,      \* _RATE_LIMIT_MAX
  Tracked,    \* _RATE_LIMIT_MAX_TRACKED
  Horizon     \* bound: time

GuardAssumption ==
  Allowed \subseteq Addresses /\ {Window, Limit, Tracked} \subseteq Nat \ {0} /\ Horizon \in Nat

VARIABLES
  rate,    \* the rate store: the count and the start of an address's window
  time,
  passes   \* history: when requests of each address came past the limit, good key or not

vars == <<rate, time, passes>>

Stale(r) == time - r.start >= Window

-----------------------------------------------------------------------------

\* Mutant: the sweep takes the windows that still count as well.
SweptAll == [a \in {} |-> rate[a]]

\* _evict_stale.
Swept == [a \in {b \in DOMAIN rate : ~Stale(rate[b])} |-> rate[a]]

\* What the rate store is for a request of a new address.
Store == IF Cardinality(DOMAIN rate) >= Tracked THEN Swept ELSE rate

First == [count |-> 1, start |-> time]

\* A request that changes nothing was answered 403 by _acl_middleware, before
\* anything is counted, or 429 by the limit.
Request(a) ==
  /\ a \in Allowed
  /\ \/ a \notin DOMAIN rate /\ rate' = [b \in {a} \cup DOMAIN Store |-> IF b = a THEN First ELSE Store[b]]
     \/ a \in DOMAIN rate /\ Stale(rate[a]) /\ rate' = [rate EXCEPT ![a] = First]
     \/ /\ a \in DOMAIN rate /\ ~Stale(rate[a]) /\ rate[a].count < Limit
        /\ rate' = [rate EXCEPT ![a].count = @ + 1]
  /\ passes' = [passes EXCEPT ![a] = Append(@, time)]
  /\ UNCHANGED time

Tick ==
  /\ time < Horizon /\ time' = time + 1
  /\ UNCHANGED <<rate, passes>>

Init == rate = [a \in {} |-> First] /\ time = 0 /\ passes = [a \in Addresses |-> <<>>]

Next == Tick \/ \E a \in Addresses : Request(a)

-----------------------------------------------------------------------------

\* However requests are timed, and whatever the sweep removes in between, no
\* stretch of time as long as a window has more than twice the limit of requests,
\* and so of guesses at the key, from one address.
RateBounded ==
  \A a \in Addresses, t \in 0..time :
    Cardinality({i \in DOMAIN passes[a] : passes[a][i] \in t..(t + Window - 1)}) <= 2 * Limit
=============================================================================
