---------------------------- MODULE RateLimiter -----------------------------
(* The token bucket of core/rate_limiter.py, one per client address, before  *)
(* /ask, /generate-sql and /ingest.  A token is Refill units, one of which   *)
(* comes with each tick of the clock; consume runs under a lock, so its time *)
(* never goes back.  A request whose Host header names the test server never *)
(* comes to consume, whoever sends it.  What passed is counted in a window   *)
(* that may be opened at any time.                                           *)
EXTENDS Integers
CONSTANTS Clients,   \* addresses
          Capacity,  \* RateLimiter.capacity
          Refill,    \* ticks per token, 1 / refill_rate
          MaxClock,  \* bound: how long the clock runs
          MaxFree    \* bound: how many requests of a window go uncharged
ASSUME LimiterAssumption ==
    Capacity \in Nat \ {0} /\ Refill \in Nat \ {0} /\ MaxClock \in Nat
    /\ MaxFree \in Nat

VARIABLES
    clock,       \* time.monotonic()
    tokens,      \* units in the bucket of each client, as of
    last,        \* its last refill
    since,       \* history: when the window of the client was opened,
    passed,      \* how many requests have come through in it,
    free,        \* how many of these without being charged,
    lastPassed   \* and when one was charged last at all
limiterVars == <<clock, tokens, last, since, passed, free, lastPassed>>

Full == Capacity * Refill
\* Both defaults are made at the first request, with a full bucket: as good as
\* a bucket full since the start.
LimiterInit ==
    /\ clock = 0
    /\ tokens = [c \in Clients |-> Full]
    /\ last = [c \in Clients |-> 0]
    /\ since = [c \in Clients |-> 0]
    /\ passed = [c \in Clients |-> 0] /\ free = [c \in Clients |-> 0]
    /\ lastPassed = [c \in Clients |-> -Refill]

\* MUTANT of Level: the bucket has no rim.
LevelUncapped(c) == tokens[c] + (clock - last[c])

\* what the bucket holds once it is refilled
Level(c) ==
    LET level == tokens[c] + (clock - last[c]) IN IF level > Full THEN Full ELSE level

Pass(c) ==
    /\ Level(c) >= Refill
    /\ tokens' = [tokens EXCEPT ![c] = Level(c) - Refill]
    /\ last' = [last EXCEPT ![c] = clock]
    /\ passed' = [passed EXCEPT ![c] = @ + 1]
    /\ lastPassed' = [lastPassed EXCEPT ![c] = clock]
    /\ UNCHANGED <<clock, since, free>>

\* The request names the host testserver, or comes from the address testclient:
\* it goes to the handler without a look at the bucket.
Bypass(c) ==
    /\ free[c] < MaxFree
    /\ passed' = [passed EXCEPT ![c] = @ + 1]
    /\ free' = [free EXCEPT ![c] = @ + 1]
    /\ UNCHANGED <<clock, tokens, last, since, lastPassed>>

\* MUTANT of TurnAway: the time since the last refill is lost.
TurnAwayEmpty(c) ==
    /\ Level(c) < Refill
    /\ last' = [last EXCEPT ![c] = clock]
    /\ UNCHANGED <<clock, tokens, since, passed, free, lastPassed>>

\* 429: the refill is kept
TurnAway(c) ==
    /\ Level(c) < Refill
    /\ tokens' = [tokens EXCEPT ![c] = Level(c)]
    /\ last' = [last EXCEPT ![c] = clock]
    /\ UNCHANGED <<clock, since, passed, free, lastPassed>>

Tick ==
    /\ clock < MaxClock /\ clock' = clock + 1
    /\ UNCHANGED <<tokens, last, since, passed, free, lastPassed>>
\* history only
OpenWindow(c) ==
    /\ since' = [since EXCEPT ![c] = clock]
    /\ passed' = [passed EXCEPT ![c] = 0] /\ free' = [free EXCEPT ![c] = 0]
    /\ UNCHANGED <<clock, tokens, last, lastPassed>>

LimiterNext == Tick \/ \E c \in Clients : Pass(c) \/ TurnAway(c) \/ Bypass(c) \/ OpenWindow(c)
LimiterSpec == LimiterInit /\ [][LimiterNext]_limiterVars

----------------------------------------------------------------------------
\* Type invariant: no bucket is overdrawn or overfull, no refill is in the future.
LimiterTypeOK ==
    /\ clock \in 0..MaxClock
    /\ tokens \in [Clients -> 0..Full]
    /\ last \in [Clients -> 0..clock] /\ since \in [Clients -> 0..clock]
    /\ passed \in [Clients -> Nat] /\ free \in [Clients -> 0..MaxFree]
    /\ lastPassed \in [Clients -> -Refill..clock]
    /\ \A c \in Clients : lastPassed[c] <= last[c] /\ free[c] <= passed[c]

\* In whatever window of time, and whatever else a client sends under the test
\* server's name, no more of its requests come through consume than a full bucket
\* and what drips into it meanwhile pay for: who never uses that name is limited
\* (consume, dispatch).
BurstBounded ==
    \A c \in Clients : Refill * (passed[c] - free[c]) <= Full + (clock - since[c])

\* A client that was charged for nothing during the time of one token is let in:
\* being turned away, however often, costs nothing (consume).
SteadyPasses ==
    \A c \in Clients : clock - lastPassed[c] >= Refill => Level(c) >= Refill
=============================================================================
